---- MODULE Spec2Model ----
(***************************************************************************)
(* Model of scripts/dtcc-get-authors.py: the Publication record, the       *)
(* adapters of the sources, merge_publications, the sort and the output of *)
(* main; and of check_crossref of scripts/dtcc-check-bib.py.               *)
(*                                                                         *)
(* Python values are represented as follows.                               *)
(*   str            a sequence of one-character strings                    *)
(*   Optional[T]    None is the empty set, a present value v is {v}        *)
(*   List[str]      a sequence of str                                      *)
(*   object         a reference (a position of the heap); a list of        *)
(*                  objects is a sequence of references                    *)
(*   dict           a sequence of [k, v] entries in insertion order        *)
(***************************************************************************)
EXTENDS Integers, Sequences, FiniteSets, TLC

\* Longest input sequence handed to merge_publications.
MaxLen == 3

\* Longest input sequence of which every order is tried.
MaxOrderLen == 3

----------------------------------------------------------------------------
\* Python values

None == {}

Some(v) == {v}

Val(o) == CHOOSE v \in o : TRUE

\* bool(x) of an Optional[str]: None and "" are falsy.
TruthyStr(o) == o # None /\ Val(o) # <<>>

\* bool(x) of an Optional[int]: None and 0 are falsy.
TruthyInt(o) == o # None /\ Val(o) # 0

\* bool(x) of a list: [] is falsy.
TruthyList(l) == l # <<>>

UpperCase == <<"A","B","C","D","E","F","G","H","I","J","K","L","M",
               "N","O","P","Q","R","S","T","U","V","W","X","Y","Z">>

LowerCase == <<"a","b","c","d","e","f","g","h","i","j","k","l","m",
               "n","o","p","q","r","s","t","u","v","w","x","y","z">>

LowerChar(c) ==
    IF \E n \in 1..26 : UpperCase[n] = c
    THEN LowerCase[CHOOSE n \in 1..26 : UpperCase[n] = c]
    ELSE c

RECURSIVE lower(_)
\* str.lower()
lower(s) == IF s = <<>> THEN <<>> ELSE <<LowerChar(Head(s))>> \o lower(Tail(s))

Digits == <<"0","1","2","3","4","5","6","7","8","9">>

RECURSIVE IntStr(_)
\* str(n) of an int
IntStr(n) ==
    IF n < 0 THEN <<"-">> \o IntStr(0 - n)
    ELSE IF n < 10 THEN <<Digits[n + 1]>>
    ELSE IntStr(n \div 10) \o <<Digits[(n % 10) + 1]>>

\* f"{pub.year}" of an Optional[int]
YearStr(y) == IF y = None THEN <<"N","o","n","e">> ELSE IntStr(Val(y))

\* s in t, of two str
OccursIn(s, t) ==
    \E n \in 0..(Len(t) - Len(s)) : SubSeq(t, n + 1, n + Len(s)) = s

RECURSIVE join(_, _)
\* sep.join(l)
join(sep, l) ==
    IF l = <<>> THEN <<>>
    ELSE IF Len(l) = 1 THEN l[1]
    ELSE l[1] \o sep \o join(sep, Tail(l))

----------------------------------------------------------------------------
\* The Publication dataclass

Fields == {"title", "authors", "year", "doi", "journal", "volume", "issue",
           "pages", "publisher", "url", "abstract", "citations", "type",
           "source"}

Publication(title, authors, year, doi, journal, volume, issue, pages, publisher, url, abstract, citations, type, source) ==
    [title |-> title, authors |-> authors, year |-> year, doi |-> doi,
     journal |-> journal, volume |-> volume, issue |-> issue,
     pages |-> pages, publisher |-> publisher, url |-> url,
     abstract |-> abstract, citations |-> citations, type |-> type,
     source |-> source]

----------------------------------------------------------------------------
\* Input records

Foo == <<"F","o","o">>
foo == <<"f","o","o">>
TitleB == <<"B">>
Doi101X == <<"1","0",".","1","/","X">>
Doi101x == <<"1","0",".","1","/","x">>
DoiFoo2020 == <<"f","o","o","_","2","0","2","0">>
SrcA == <<"A">>
SrcB == <<"B">>

\* title=None: the value a source hands over for a JSON null title. It is no
\* str (its element is not a character) and has no method lower.
NoTitle == <<"None">>

\* A record as a source that knows only title, year and DOI returns it.
Bare(title, year, doi, source) ==
    Publication(title, <<>>, year, doi, None, None, None, None, None, None,
                None, None, None, source)

\* A record with every field present.
Full(title, year, doi, source) ==
    Publication(title, << <<"a">>, <<"b">> >>, year, doi, Some(<<"J">>),
                Some(<<"1">>), Some(<<"2">>), Some(<<"3","-","4">>),
                Some(<<"P">>), Some(<<"u">>), Some(<<"x">>), Some(5),
                Some(<<"b","o","o","k">>), source)

\* A record with empty strings, a zero citation count and other values.
Thin(title, year, doi, source) ==
    Publication(title, << <<"c">> >>, year, doi, Some(<<>>), Some(<<"9">>),
                None, Some(<<>>), Some(<<"Q">>), None, Some(<<"y">>),
                Some(0), Some(<<>>), source)

Catalogue ==
    { Bare(Foo, Some(2020), Some(Doi101X), SrcA),
      Full(Foo, Some(2020), Some(Doi101X), SrcB),
      Bare(TitleB, Some(2021), Some(Doi101x), SrcA),
      Thin(TitleB, Some(2021), Some(Doi101x), SrcB),
      Bare(foo, Some(2020), None, SrcA),
      Full(foo, Some(2020), None, SrcB),
      Bare(Foo, Some(2021), None, SrcB),
      Bare(Foo, None, None, SrcA),
      Thin(foo, None, Some(<<>>), SrcB),
      Full(TitleB, Some(2021), Some(DoiFoo2020), SrcB),
      Bare(Foo, None, Some(Doi101x), SrcA),
      Thin(Foo, None, Some(Doi101x), SrcA),
      Bare(TitleB, Some(2020), None, SrcA),
      Bare(<<>>, None, None, SrcA),
      Bare(NoTitle, Some(2020), None, SrcB) }

\* The records of which every order is tried: records of one DOI that differ
\* in content, records without DOI of one title and year, and a DOI that is
\* the title_year key of another record.
OrderCatalogue ==
    { Bare(Foo, Some(2020), Some(Doi101X), SrcA),
      Full(Foo, Some(2020), Some(Doi101X), SrcB),
      Thin(Foo, None, Some(Doi101x), SrcA),
      Bare(foo, Some(2020), None, SrcA),
      Full(foo, Some(2020), None, SrcB),
      Full(TitleB, Some(2021), Some(DoiFoo2020), SrcB),
      Bare(Foo, None, None, SrcA),
      Thin(foo, None, Some(<<>>), SrcB) }

----------------------------------------------------------------------------
\* dict

contains(d, k) == \E n \in 1..Len(d) : d[n].k = k

getitem(d, k) == d[CHOOSE n \in 1..Len(d) : d[n].k = k].v

setitem_front(d, k, v) ==
    IF contains(d, k)
    THEN [n \in 1..Len(d) |-> IF d[n].k = k THEN [k |-> k, v |-> v] ELSE d[n]]
    ELSE <<[k |-> k, v |-> v]>> \o d

\* d[k] = v: a new key goes last, an existing key keeps its position.
setitem(d, k, v) ==
    IF contains(d, k)
    THEN [n \in 1..Len(d) |-> IF d[n].k = k THEN [k |-> k, v |-> v] ELSE d[n]]
    ELSE Append(d, [k |-> k, v |-> v])

\* list(d.values())
values(d) == [n \in 1..Len(d) |-> d[n].v]

----------------------------------------------------------------------------
\* merge_publications

key_no_lower(pub) ==
    IF TruthyStr(pub.doi)
    THEN lower(Val(pub.doi))
    ELSE pub.title \o <<"_">> \o YearStr(pub.year)

\* key = pub.doi.lower() if pub.doi else f"{pub.title.lower()}_{pub.year}"
key(pub) ==
    IF TruthyStr(pub.doi)
    THEN lower(Val(pub.doi))
    ELSE lower(pub.title) \o <<"_">> \o YearStr(pub.year)

key_raises_unguarded(pub) == ~TruthyStr(pub.doi)

\* The evaluation of key raises AttributeError: pub.title.lower() is
\* evaluated, when pub.doi is falsy, on a title that is None.
key_raises(pub) == ~TruthyStr(pub.doi) /\ pub.title = NoTitle

FillStr_none_only(e, p) == IF e = None /\ TruthyStr(p) THEN p ELSE e

\* if not existing.f and pub.f: existing.f = pub.f, for an Optional[str]
FillStr(e, p) == IF ~TruthyStr(e) /\ TruthyStr(p) THEN p ELSE e

\* the same for an Optional[int]
FillInt(e, p) == IF ~TruthyInt(e) /\ TruthyInt(p) THEN p ELSE e

\* the same for a list
FillList(e, p) == IF ~TruthyList(e) /\ TruthyList(p) THEN p ELSE e

\* f"{existing.source}, {pub.source}"
JoinSource(s, t) == s \o <<",", " ">> \o t

Filled(existing, pub) ==
    [existing EXCEPT
        !.authors = FillList(existing.authors, pub.authors),
        !.journal = FillStr(existing.journal, pub.journal),
        !.abstract = FillStr(existing.abstract, pub.abstract),
        !.url = FillStr(existing.url, pub.url),
        !.volume = FillStr(existing.volume, pub.volume),
        !.issue = FillStr(existing.issue, pub.issue),
        !.pages = FillStr(existing.pages, pub.pages),
        !.publisher = FillStr(existing.publisher, pub.publisher),
        !.citations = FillInt(existing.citations, pub.citations),
        !.type = FillStr(existing.type, pub.type)]

merge_into_skip_known_source(existing, pub) ==
    [Filled(existing, pub) EXCEPT
        !.source = IF pub.source = existing.source
                   THEN existing.source
                   ELSE JoinSource(existing.source, pub.source)]

merge_into_take_title(existing, pub) ==
    [Filled(existing, pub) EXCEPT
        !.source = JoinSource(existing.source, pub.source),
        !.title = pub.title]

\* The else branch of the loop: the record existing after pub was merged
\* into it.
merge_into(existing, pub) ==
    [Filled(existing, pub) EXCEPT
        !.source = JoinSource(existing.source, pub.source)]

RECURSIVE fold(_, _)
\* The for loop, on record values: the dict after the records were looped
\* over, each entry holding the primary as the merges left it.
fold(d, records) ==
    IF records = <<>> THEN d
    ELSE LET pub == Head(records)
             k == key(pub)
         IN IF contains(d, k)
            THEN fold(setitem(d, k, merge_into(getitem(d, k), pub)),
                      Tail(records))
            ELSE fold(setitem(d, k, pub), Tail(records))

\* merge_publications raises on these records.
merge_raises(records) == \E n \in 1..Len(records) : key_raises(records[n])

\* The records merge_publications returns, when it does not raise.
merge_publications(records) == values(fold(<<>>, records))

----------------------------------------------------------------------------
\* HTTP responses and JSON values
\*
\* A JSON value is a record with a tag t and, but for null, a value: the
\* characters s of a string, the number n, the sequence l of a list, the
\* function o from the keys of an object.

JNull == [t |-> "null"]

JStr(s) == [t |-> "str", s |-> s]

JInt(n) == [t |-> "int", n |-> n]

JList(l) == [t |-> "list", l |-> l]

JObj(f) == [t |-> "obj", o |-> f]

\* {}
EmptyObj == JObj(<<>>)

\* k in j, for a dict j (a key of a dict is never found in another value
\* of the payloads here)
In(k, j) == j.t = "obj" /\ k \in DOMAIN j.o

\* j.get(k, default), for a dict j
Get(j, k, default) == IF k \in DOMAIN j.o THEN j.o[k] ELSE default

\* j.get(...) raises AttributeError: j is no dict.
NoDict(j) == j.t # "obj"

\* bool(j)
JTruthy(j) ==
    CASE j.t = "null" -> FALSE
      [] j.t = "str" -> j.s # <<>>
      [] j.t = "int" -> j.n # 0
      [] j.t = "list" -> j.l # <<>>
      [] j.t = "obj" -> DOMAIN j.o # {}

\* The Python value of a JSON string or null, as an Optional[str] field.
PyStr(j) == IF j.t = "null" THEN None ELSE Some(j.s)

\* The Python value of a JSON number or null, as an Optional[int] field.
PyInt(j) == IF j.t = "null" THEN None ELSE Some(j.n)

\* The Python value of a JSON string or null, as the title field.
PyTitle(j) == IF j.t = "null" THEN NoTitle ELSE j.s

\* s.strip()
strip(s) ==
    LET WhiteSpace == {" ", "\t", "\n", "\r"}
        RECURSIVE lstrip(_), rstrip(_)
        lstrip(t) ==
            IF t # <<>> /\ t[1] \in WhiteSpace
            THEN lstrip(SubSeq(t, 2, Len(t))) ELSE t
        rstrip(t) ==
            IF t # <<>> /\ t[Len(t)] \in WhiteSpace
            THEN rstrip(SubSeq(t, 1, Len(t) - 1)) ELSE t
    IN rstrip(lstrip(s))

IsDigit(c) == \E n \in 1..10 : Digits[n] = c

\* int(s) raises ValueError: s is not a decimal numeral between white
\* space.
NoNumeral(s) ==
    strip(s) = <<>> \/ \E n \in 1..Len(strip(s)) : ~IsDigit(strip(s)[n])

\* int(s) of a decimal numeral between white space
ParseInt(s) ==
    LET RECURSIVE Decimal(_)
        Decimal(t) ==
            IF t = <<>> THEN 0
            ELSE 10 * Decimal(SubSeq(t, 1, Len(t) - 1))
                    + ((CHOOSE n \in 1..10 : Digits[n] = t[Len(t)]) - 1)
    IN Decimal(strip(s))

\* session.get raised a RequestException (connection error, timeout,
\* retries exhausted).
NoResponse == [status |-> 0, body |-> JNull]

\* A response with a status code and a JSON body.
Response(status, body) == [status |-> status, body |-> body]

\* response.raise_for_status() raises HTTPError, a RequestException.
HttpError(response) == response.status >= 400

\* The request of a try block ends in its except clause.
RequestFailed(response) == response = NoResponse \/ HttpError(response)

UnknownTitle == <<"U","n","k","n","o","w","n"," ","T","i","t","l","e">>

\* What a call of an adapter comes to: it raises, or it returns pubs.
Raised == [raised |-> TRUE, pubs |-> <<>>]

Returns(pubs) == [raised |-> FALSE, pubs |-> pubs]

----------------------------------------------------------------------------
\* get_orcid_works

\* The records without the fields a source does not set.
Record(title, authors, year, doi, source) ==
    Publication(title, authors, year, doi, None, None, None, None, None, None,
                None, None, None, source)

\* The last external id of type doi, None without one.
RECURSIVE orcid_doi(_)
orcid_doi(ids) ==
    IF ids = <<>> THEN None
    ELSE LET last == ids[Len(ids)]
         IN IF Get(last, "external-id-type", JNull) = JStr(<<"d","o","i">>)
            THEN PyStr(Get(last, "external-id-value", JNull))
            ELSE orcid_doi(SubSeq(ids, 1, Len(ids) - 1))

\* The body of the loop over the groups raises: IndexError of [0] on an
\* empty list, AttributeError of get on None, TypeError of a subscript or an
\* iteration of None, KeyError, or int() of something that is no numeral.
orcid_work_raises(group) ==
    \/ NoDict(group)
    \/ LET summaries == Get(group, "work-summary", JList(<<>>))
       IN \/ summaries.t # "list"
          \/ summaries.l = <<>>
          \/ LET w == summaries.l[1]
                 title == Get(w, "title", EmptyObj)
                 pub_date == Get(w, "publication-date", JNull)
                 ext == Get(w, "external-ids", EmptyObj)
             IN \/ NoDict(w)
                \/ NoDict(title)
                \/ NoDict(Get(title, "title", EmptyObj))
                \/ /\ JTruthy(pub_date) /\ In("year", pub_date)
                   /\ LET year == pub_date.o["year"]
                      IN \/ NoDict(year)
                         \/ ~In("value", year)
                         \/ year.o["value"].t # "str"
                         \/ NoNumeral(year.o["value"].s)
                \/ NoDict(ext)
                \/ Get(ext, "external-id", JList(<<>>)).t # "list"
                \/ \E n \in 1..Len(Get(ext, "external-id", JList(<<>>)).l) :
                      NoDict(Get(ext, "external-id", JList(<<>>)).l[n])

\* The Publication of a group.
orcid_work(group) ==
    LET w == Get(group, "work-summary", JList(<<>>)).l[1]
        pub_date == Get(w, "publication-date", JNull)
        title == Get(Get(Get(w, "title", EmptyObj), "title", EmptyObj),
                     "value", JStr(UnknownTitle))
    IN [Record(PyTitle(title), <<>>,
               IF JTruthy(pub_date) /\ In("year", pub_date)
               THEN Some(ParseInt(pub_date.o["year"].o["value"].s)) ELSE None,
               orcid_doi(Get(Get(w, "external-ids", EmptyObj),
                             "external-id", JList(<<>>)).l),
               <<"O","R","C","I","D">>)
        EXCEPT !.type = PyStr(Get(w, "type", JNull))]

get_orcid_works(response) ==
    IF RequestFailed(response) THEN Returns(<<>>)
    ELSE IF NoDict(response.body) THEN Raised
    ELSE LET groups == Get(response.body, "group", JList(<<>>))
         IN IF groups.t # "list" THEN Raised
            ELSE IF \E n \in 1..Len(groups.l) : orcid_work_raises(groups.l[n])
            THEN Raised
            ELSE Returns([n \in 1..Len(groups.l) |-> orcid_work(groups.l[n])])

----------------------------------------------------------------------------
\* get_crossref_publications

\* The authors: " ".join(name_parts) of the given and family name of each
\* author who has a name part.
crossref_authors(item) ==
    LET all == Get(item, "author", JList(<<>>)).l
        named == SelectSeq(all, LAMBDA a : In("given", a) \/ In("family", a))
        name(author) ==
            IF In("given", author) /\ In("family", author)
            THEN author.o["given"].s \o <<" ">> \o author.o["family"].s
            ELSE IF In("given", author) THEN author.o["given"].s
            ELSE author.o["family"].s
    IN [n \in 1..Len(named) |-> name(named[n])]

\* The body of the loop over the items raises.
crossref_item_raises(item) ==
    \/ NoDict(item)
    \/ /\ In("title", item) /\ JTruthy(item.o["title"])
       /\ item.o["title"].t # "list"
    \/ Get(item, "author", JList(<<>>)).t # "list"
    \/ \E n \in 1..Len(Get(item, "author", JList(<<>>)).l) :
          LET a == Get(item, "author", JList(<<>>)).l[n]
          IN \/ NoDict(a)
             \/ In("given", a) /\ a.o["given"].t # "str"
             \/ In("family", a) /\ a.o["family"].t # "str"
    \/ /\ In("published", item)
       /\ \/ item.o["published"].t \notin {"obj", "list", "str"}
          \/ /\ In("date-parts", item.o["published"])
             /\ LET parts == item.o["published"].o["date-parts"]
                IN /\ JTruthy(parts)
                   /\ \/ parts.t # "list"
                      \/ parts.l[1].t \notin {"list", "null"}
    \/ /\ In("container-title", item) /\ JTruthy(item.o["container-title"])
       /\ item.o["container-title"].t # "list"

crossref_year(item) ==
    IF In("published", item) /\ In("date-parts", item.o["published"])
    THEN LET parts == item.o["published"].o["date-parts"]
         IN IF JTruthy(parts) /\ JTruthy(parts.l[1])
            THEN PyInt(parts.l[1].l[1]) ELSE None
    ELSE None

crossref_item(item) ==
    [Record(IF In("title", item) /\ JTruthy(item.o["title"])
            THEN PyTitle(item.o["title"].l[1]) ELSE UnknownTitle,
            crossref_authors(item), crossref_year(item),
            PyStr(Get(item, "DOI", JNull)),
            <<"C","r","o","s","s","r","e","f">>)
     EXCEPT !.journal = IF In("container-title", item)
                           /\ JTruthy(item.o["container-title"])
                        THEN PyStr(item.o["container-title"].l[1]) ELSE None,
            !.volume = PyStr(Get(item, "volume", JNull)),
            !.issue = PyStr(Get(item, "issue", JNull)),
            !.pages = PyStr(Get(item, "page", JNull)),
            !.publisher = PyStr(Get(item, "publisher", JNull)),
            !.url = PyStr(Get(item, "URL", JNull))]

get_crossref_publications(response) ==
    IF RequestFailed(response) THEN Returns(<<>>)
    ELSE IF NoDict(response.body) THEN Raised
    ELSE IF NoDict(Get(response.body, "message", EmptyObj)) THEN Raised
    ELSE LET items == Get(Get(response.body, "message", EmptyObj),
                          "items", JList(<<>>))
         IN IF items.t # "list" THEN Raised
            ELSE IF \E n \in 1..Len(items.l) : crossref_item_raises(items.l[n])
            THEN Raised
            ELSE Returns([n \in 1..Len(items.l) |-> crossref_item(items.l[n])])

----------------------------------------------------------------------------
\* get_orcid_profile and the name of the author

\* The profile, None (null) after a failed request.
get_orcid_profile(response) ==
    IF RequestFailed(response) THEN JNull ELSE response.body

\* profile.get("person", {}).get("name", {}).get(part, {}).get("value", "")
\* raises AttributeError for one of the two parts: one of the values on the
\* way is no dict.
names_raise(profile) ==
    LET raises(part) ==
            \/ NoDict(profile)
            \/ NoDict(Get(profile, "person", EmptyObj))
            \/ NoDict(Get(Get(profile, "person", EmptyObj), "name", EmptyObj))
            \/ NoDict(Get(Get(Get(profile, "person", EmptyObj), "name",
                              EmptyObj), part, EmptyObj))
    IN raises("given-names") \/ raises("family-name")

\* first_name and last_name
has_names(profile) ==
    LET name_part(part) ==
            Get(Get(Get(Get(profile, "person", EmptyObj), "name", EmptyObj),
                    part, EmptyObj), "value", JStr(<<>>))
    IN JTruthy(name_part("given-names")) /\ JTruthy(name_part("family-name"))

----------------------------------------------------------------------------
\* get_semantic_scholar_profile and get_semantic_scholar_publications

\* The profile (None is null) that the lookup by ORCID returns, or the
\* exception that leaves it, for the responses to the lookup, to the request
\* of the ORCID profile and to the search by name.
get_semantic_scholar_profile(response, orcid_response, search_response) ==
    IF response = NoResponse THEN [raised |-> FALSE, profile |-> JNull]
    ELSE IF response.status = 404
    THEN LET orcid_profile == get_orcid_profile(orcid_response)
         IN IF ~JTruthy(orcid_profile) THEN [raised |-> FALSE, profile |-> JNull]
            ELSE IF names_raise(orcid_profile)
            THEN [raised |-> TRUE, profile |-> JNull]
            ELSE IF ~has_names(orcid_profile) \/ RequestFailed(search_response)
            THEN [raised |-> FALSE, profile |-> JNull]
            ELSE IF NoDict(search_response.body)
            THEN [raised |-> TRUE, profile |-> JNull]
            ELSE LET data == Get(search_response.body, "data", JNull)
                 IN IF JTruthy(data) /\ data.t \notin {"list", "str"}
                    THEN [raised |-> TRUE, profile |-> JNull]
                    ELSE IF JTruthy(data)
                    THEN [raised |-> FALSE, profile |-> data.l[1]]
                    ELSE [raised |-> FALSE, profile |-> JNull]
    ELSE IF HttpError(response) THEN [raised |-> FALSE, profile |-> JNull]
    ELSE [raised |-> FALSE, profile |-> response.body]

\* ss_profile.get("authorId") if ss_profile else None raises.
ss_author_id_raises(profile) == JTruthy(profile) /\ NoDict(profile)

ss_author_id(profile) ==
    IF JTruthy(profile) THEN Get(profile, "authorId", JNull) ELSE JNull

ss_paper_raises(paper) ==
    \/ NoDict(paper)
    \/ Get(paper, "authors", JList(<<>>)).t # "list"
    \/ \E n \in 1..Len(Get(paper, "authors", JList(<<>>)).l) :
          NoDict(Get(paper, "authors", JList(<<>>)).l[n])
    \/ In("externalIds", paper)
          /\ paper.o["externalIds"].t \notin {"obj", "list", "str"}
    \/ /\ ~(In("venue", paper) /\ JTruthy(paper.o["venue"]))
       /\ In("journal", paper) /\ JTruthy(paper.o["journal"])
       /\ ~In("name", paper.o["journal"])

ss_paper(paper) ==
    LET authors == Get(paper, "authors", JList(<<>>)).l
    IN [Record(PyTitle(Get(paper, "title", JStr(UnknownTitle))),
               [n \in 1..Len(authors) |-> Get(authors[n], "name", JStr(<<>>)).s],
               PyInt(Get(paper, "year", JNull)),
               IF In("externalIds", paper) /\ In("DOI", paper.o["externalIds"])
               THEN PyStr(paper.o["externalIds"].o["DOI"]) ELSE None,
               <<"S","e","m","a","n","t","i","c"," ","S","c","h","o","l","a","r">>)
        EXCEPT !.journal =
                   IF In("venue", paper) /\ JTruthy(paper.o["venue"])
                   THEN PyStr(paper.o["venue"])
                   ELSE IF In("journal", paper) /\ JTruthy(paper.o["journal"])
                   THEN PyStr(paper.o["journal"].o["name"])
                   ELSE None,
               !.volume = PyStr(Get(paper, "volume", JNull)),
               !.issue = PyStr(Get(paper, "issue", JNull)),
               !.pages = PyStr(Get(paper, "pages", JNull)),
               !.url = PyStr(Get(paper, "url", JNull)),
               !.abstract = PyStr(Get(paper, "abstract", JNull)),
               !.citations = PyInt(Get(paper, "citationCount", JNull))]

get_semantic_scholar_publications(response) ==
    IF RequestFailed(response) THEN Returns(<<>>)
    ELSE IF NoDict(response.body) THEN Raised
    ELSE LET papers == Get(response.body, "data", JList(<<>>))
         IN IF papers.t # "list" THEN Raised
            ELSE IF \E n \in 1..Len(papers.l) : ss_paper_raises(papers.l[n])
            THEN Raised
            ELSE Returns([n \in 1..Len(papers.l) |-> ss_paper(papers.l[n])])

----------------------------------------------------------------------------
\* get_openalex_publications

StartsWith(s, prefix) ==
    Len(s) >= Len(prefix) /\ SubSeq(s, 1, Len(prefix)) = prefix

RECURSIVE replace(_, _)
\* s.replace(old, ""), for a non-empty old
replace(s, old) ==
    IF s = <<>> THEN <<>>
    ELSE IF StartsWith(s, old)
    THEN replace(SubSeq(s, Len(old) + 1, Len(s)), old)
    ELSE <<s[1]>> \o replace(SubSeq(s, 2, Len(s)), old)

DoiOrg == <<"h","t","t","p","s",":","/","/","d","o","i",".","o","r","g","/">>

\* The positions of an inverted index (a dict of words to lists of
\* positions).
positions(inv_index) ==
    UNION {{inv_index.o[w].l[n].n : n \in 1..Len(inv_index.o[w].l)} :
              w \in DOMAIN inv_index.o}

RECURSIVE join_words(_, _)
\* " ".join of the words of the positions in ps, in ascending order of the
\* position (a position belongs to one word). A word stands for its
\* characters.
join_words(inv_index, ps) ==
    IF ps = {} THEN <<>>
    ELSE LET pos == CHOOSE p \in ps : \A o \in ps : p <= o
             word == CHOOSE w \in DOMAIN inv_index.o :
                         \E n \in 1..Len(inv_index.o[w].l) :
                             inv_index.o[w].l[n].n = pos
         IN IF ps = {pos} THEN <<word>>
            ELSE <<word, " ">> \o join_words(inv_index, ps \ {pos})

openalex_item_raises(item) ==
    \/ NoDict(item)
    \/ Get(item, "authorships", JList(<<>>)).t # "list"
    \/ \E n \in 1..Len(Get(item, "authorships", JList(<<>>)).l) :
          LET a == Get(item, "authorships", JList(<<>>)).l[n]
          IN \/ a.t \notin {"obj", "list", "str"}
             \/ In("author", a) /\ a.o["author"].t \notin {"obj", "list", "str"}
    \/ In("doi", item) /\ item.o["doi"].t \notin {"null", "str"}
    \/ /\ In("primary_location", item)
       /\ \/ NoDict(item.o["primary_location"])
          \/ /\ In("source", item.o["primary_location"])
             /\ item.o["primary_location"].o["source"].t \notin {"null", "obj"}
    \/ /\ In("abstract_inverted_index", item)
       /\ JTruthy(item.o["abstract_inverted_index"])
       /\ NoDict(item.o["abstract_inverted_index"])

openalex_authors(item) ==
    LET all == Get(item, "authorships", JList(<<>>)).l
        named == SelectSeq(all, LAMBDA a : In("author", a)
                                    /\ In("display_name", a.o["author"]))
    IN [n \in 1..Len(named) |-> named[n].o["author"].o["display_name"].s]

openalex_item(item) ==
    [Record(PyTitle(Get(item, "title", JStr(UnknownTitle))),
            openalex_authors(item),
            IF In("publication_year", item)
            THEN PyInt(item.o["publication_year"]) ELSE None,
            IF In("doi", item) /\ item.o["doi"] # JNull
            THEN Some(replace(item.o["doi"].s, DoiOrg)) ELSE None,
            <<"O","p","e","n","A","l","e","x">>)
     EXCEPT !.journal =
                IF /\ In("primary_location", item)
                   /\ In("source", item.o["primary_location"])
                   /\ item.o["primary_location"].o["source"] # JNull
                THEN PyStr(Get(item.o["primary_location"].o["source"],
                               "display_name", JNull))
                ELSE None,
            !.abstract =
                IF In("abstract_inverted_index", item)
                    /\ JTruthy(item.o["abstract_inverted_index"])
                THEN LET inv_index == item.o["abstract_inverted_index"]
                     IN Some(join_words(inv_index, positions(inv_index)))
                ELSE None,
            !.citations = PyInt(Get(item, "cited_by_count", JNull)),
            !.url = PyStr(Get(Get(item, "primary_location", EmptyObj),
                              "landing_page_url", JNull))]

get_openalex_publications(response) ==
    IF RequestFailed(response) THEN Returns(<<>>)
    ELSE IF NoDict(response.body) THEN Raised
    ELSE LET results == Get(response.body, "results", JList(<<>>))
         IN IF results.t # "list" THEN Raised
            ELSE IF \E n \in 1..Len(results.l) :
                        openalex_item_raises(results.l[n])
            THEN Raised
            ELSE Returns([n \in 1..Len(results.l) |->
                              openalex_item(results.l[n])])

----------------------------------------------------------------------------
\* get_arxiv_publications

\* The group of a regular expression that matches the text between the
\* tags of an element: the body of an XML response stands for the entries
\* that re.findall finds in it, and an entry for the elements that re.search
\* finds in it (a dict of the tag to the text of the first such element,
\* "authors" to the texts of all author names; no key without a match).
group(entry, tag) == entry.o[tag].s

\* re.search(r"^(\d{4})", published_date) matches.
year_match(published_date) ==
    Len(published_date) >= 4 /\ \A n \in 1..4 : IsDigit(published_date[n])

arxiv_entry(entry) ==
    LET authors == Get(entry, "authors", JList(<<>>)).l
    IN [Record(IF In("title", entry) THEN strip(group(entry, "title"))
               ELSE UnknownTitle,
               [n \in 1..Len(authors) |-> strip(authors[n].s)],
               IF In("published", entry)
                   /\ year_match(group(entry, "published"))
               THEN Some(ParseInt(SubSeq(group(entry, "published"), 1, 4)))
               ELSE None,
               IF In("arxiv:doi", entry)
               THEN Some(strip(group(entry, "arxiv:doi"))) ELSE None,
               <<"a","r","X","i","v">>)
        EXCEPT !.abstract = IF In("summary", entry)
                            THEN Some(strip(group(entry, "summary")))
                            ELSE None,
               !.url = IF In("id", entry) THEN Some(strip(group(entry, "id")))
                       ELSE None,
               !.journal = Some(<<"a","r","X","i","v">>)]

\* The call for the responses to the request of the ORCID profile and to
\* the query.
get_arxiv_publications(profile_response, response) ==
    LET profile == get_orcid_profile(profile_response)
    IN IF ~JTruthy(profile) THEN Returns(<<>>)
       ELSE IF names_raise(profile) THEN Raised
       ELSE IF ~has_names(profile) THEN Returns(<<>>)
       ELSE IF RequestFailed(response) THEN Returns(<<>>)
       ELSE Returns([n \in 1..Len(response.body.l) |->
                         arxiv_entry(response.body.l[n])])

----------------------------------------------------------------------------
\* get_dblp_publications

DblpPid == <<"h","t","t","p","s",":","/","/","d","b","l","p",".","o","r","g","/","p","i","d","/">>

publication_types ==
    <<<<"a","r","t","i","c","l","e">>,
      <<"i","n","p","r","o","c","e","e","d","i","n","g","s">>,
      <<"p","r","o","c","e","e","d","i","n","g","s">>,
      <<"b","o","o","k">>,
      <<"i","n","c","o","l","l","e","c","t","i","o","n">>,
      <<"p","h","d","t","h","e","s","i","s">>,
      <<"m","a","s","t","e","r","s","t","h","e","s","i","s">>>>

\* data.get("result", {}).get("hits", {}).get("hit", []) raises.
dblp_hits_raise(data) ==
    \/ NoDict(data)
    \/ NoDict(Get(data, "result", EmptyObj))
    \/ NoDict(Get(Get(data, "result", EmptyObj), "hits", EmptyObj))

dblp_hits(data) ==
    Get(Get(Get(data, "result", EmptyObj), "hits", EmptyObj), "hit",
        JList(<<>>))

\* authors[0].get("info", {}).get("url", "").replace(...) raises.
dblp_key_raises(authors) ==
    \/ authors.t # "list"
    \/ NoDict(authors.l[1])
    \/ NoDict(Get(authors.l[1], "info", EmptyObj))
    \/ Get(Get(authors.l[1], "info", EmptyObj), "url", JStr(<<>>)).t # "str"

author_key(authors) ==
    replace(Get(Get(authors.l[1], "info", EmptyObj), "url", JStr(<<>>)).s,
            DblpPid)

\* The group of re.search(r"<ee>https?://doi.org/(.*?)</ee>", entry): the
\* text after the host of the first element <ee> that is a URL of doi.org,
\* None without one.
dblp_doi(entry) ==
    LET https == <<"h","t","t","p","s",":","/","/","d","o","i",".","o","r","g","/">>
        http == <<"h","t","t","p",":","/","/","d","o","i",".","o","r","g","/">>
        ees == SelectSeq(Get(entry, "ee", JList(<<>>)).l,
                         LAMBDA ee : \/ StartsWith(ee.s, https)
                                     \/ StartsWith(ee.s, http))
    IN IF ees = <<>> THEN None
       ELSE IF StartsWith(ees[1].s, https)
       THEN Some(SubSeq(ees[1].s, Len(https) + 1, Len(ees[1].s)))
       ELSE Some(SubSeq(ees[1].s, Len(http) + 1, Len(ees[1].s)))

\* int(year_match.group(1)) raises.
dblp_entry_raises(entry) ==
    In("year", entry) /\ NoNumeral(group(entry, "year"))

dblp_entry(entry) ==
    LET authors == Get(entry, "authors", JList(<<>>)).l
        pub_type == entry.o["type"].s
    IN [Record(IF In("title", entry) THEN strip(group(entry, "title"))
               ELSE UnknownTitle,
               [n \in 1..Len(authors) |-> strip(authors[n].s)],
               IF In("year", entry) THEN Some(ParseInt(group(entry, "year")))
               ELSE None,
               dblp_doi(entry),
               <<"D","B","L","P">>)
        EXCEPT !.journal =
                   IF pub_type = publication_types[1]
                   THEN PyStr(Get(entry, "journal", JNull))
                   ELSE IF pub_type = publication_types[2]
                   THEN PyStr(Get(entry, "booktitle", JNull))
                   ELSE None,
               !.url = IF Get(entry, "ee", JList(<<>>)).l # <<>>
                       THEN Some(entry.o["ee"].l[1].s) ELSE None,
               !.volume = PyStr(Get(entry, "volume", JNull)),
               !.issue = PyStr(Get(entry, "number", JNull)),
               !.pages = PyStr(Get(entry, "pages", JNull)),
               !.type = Some(pub_type)]

RECURSIVE dblp_entries(_, _)
\* The entries of the response, type by type from the n-th type on, in the
\* order of the document within a type.
dblp_entries(entries, n) ==
    IF n > Len(publication_types) THEN <<>>
    ELSE SelectSeq(entries, LAMBDA e : e.o["type"].s = publication_types[n])
             \o dblp_entries(entries, n + 1)

\* The call for the responses to the search of the author and to the
\* request of the publications.
get_dblp_publications(response, pub_response) ==
    IF RequestFailed(response) THEN Returns(<<>>)
    ELSE IF dblp_hits_raise(response.body) THEN Raised
    ELSE IF ~JTruthy(dblp_hits(response.body)) THEN Returns(<<>>)
    ELSE IF dblp_key_raises(dblp_hits(response.body)) THEN Raised
    ELSE IF author_key(dblp_hits(response.body)) = <<>> THEN Returns(<<>>)
    ELSE IF RequestFailed(pub_response) THEN Returns(<<>>)
    ELSE LET entries == dblp_entries(pub_response.body.l, 1)
         IN IF \E n \in 1..Len(entries) : dblp_entry_raises(entries[n])
            THEN Raised
            ELSE Returns([n \in 1..Len(entries) |-> dblp_entry(entries[n])])

----------------------------------------------------------------------------
\* get_core_publications

\* API_KEY is the placeholder: the call returns [] before any request.
get_core_publications == Returns(<<>>)

----------------------------------------------------------------------------
\* get_scopus_publications

count_per_page == 25

\* The first item of opensearch:totalResults that is a dict with "@value",
\* a sequence of at most one item.
total_count_entry(search_results) ==
    LET v == Get(search_results, "opensearch:totalResults", JList(<<>>))
    IN IF v.t # "list" THEN <<>>
       ELSE LET found == SelectSeq(v.l, LAMBDA item : In("@value", item))
            IN IF found = <<>> THEN <<>> ELSE <<found[1]>>

\* The extraction of the total raises: the iteration of a value that is
\* not iterable, or int() of an "@value" that is no numeral.
total_raises(search_results) ==
    \/ Get(search_results, "opensearch:totalResults", JList(<<>>)).t
           \in {"null", "int"}
    \/ /\ total_count_entry(search_results) # <<>>
       /\ LET value == total_count_entry(search_results)[1].o["@value"]
          IN \/ value.t \notin {"str", "int"}
             \/ value.t = "str" /\ NoNumeral(value.s)

\* total_results after the first response
total(search_results) ==
    IF total_count_entry(search_results) # <<>>
    THEN LET value == total_count_entry(search_results)[1].o["@value"]
         IN IF value.t = "int" THEN value.n ELSE ParseInt(value.s)
    ELSE LET total_results_str ==
                 Get(search_results, "opensearch:totalResults",
                     JStr(<<"0">>))
         IN IF total_results_str.t = "int" THEN total_results_str.n
            ELSE IF total_results_str.t = "str"
                    /\ ~NoNumeral(total_results_str.s)
            THEN ParseInt(total_results_str.s)
            ELSE 0

\* The name of an author of an entry, a sequence of at most one name.
scopus_author(author) ==
    IF In("authname", author) THEN <<author.o["authname"].s>>
    ELSE IF In("given-name", author) /\ In("surname", author)
    THEN <<author.o["given-name"].s \o <<" ">> \o author.o["surname"].s>>
    ELSE <<>>

RECURSIVE scopus_authors(_)
scopus_authors(authors) ==
    IF authors = <<>> THEN <<>>
    ELSE scopus_author(authors[1])
             \o scopus_authors(SubSeq(authors, 2, Len(authors)))

scopus_entry_raises(entry) ==
    \/ NoDict(entry)
    \/ /\ In("prism:coverDate", entry)
       /\ JTruthy(entry.o["prism:coverDate"])
       /\ entry.o["prism:coverDate"].t # "str"

scopus_entry(entry) ==
    [Record(PyTitle(Get(entry, "dc:title", JStr(UnknownTitle))),
            IF ~In("author", entry) THEN <<>>
            ELSE IF entry.o["author"].t = "list"
            THEN scopus_authors(entry.o["author"].l)
            ELSE scopus_author(entry.o["author"]),
            IF /\ In("prism:coverDate", entry)
               /\ JTruthy(entry.o["prism:coverDate"])
               /\ year_match(entry.o["prism:coverDate"].s)
            THEN Some(ParseInt(SubSeq(entry.o["prism:coverDate"].s, 1, 4)))
            ELSE None,
            PyStr(Get(entry, "prism:doi", JNull)),
            <<"S","c","o","p","u","s">>)
     EXCEPT !.journal = PyStr(Get(entry, "prism:publicationName", JNull)),
            !.volume = PyStr(Get(entry, "prism:volume", JNull)),
            !.issue = PyStr(Get(entry, "prism:issueIdentifier", JNull)),
            !.pages = PyStr(Get(entry, "prism:pageRange", JNull)),
            !.citations =
                IF ~In("citedby-count", entry) THEN None
                ELSE IF entry.o["citedby-count"].t = "int"
                THEN Some(entry.o["citedby-count"].n)
                ELSE IF entry.o["citedby-count"].t = "str"
                        /\ ~NoNumeral(entry.o["citedby-count"].s)
                THEN Some(ParseInt(entry.o["citedby-count"].s))
                ELSE None]

\* The locals of the loop.
ScopusLocals(publications, start_index, total_results) ==
    [publications |-> publications, start_index |-> start_index,
     total_results |-> total_results]

\* The locals before the loop.
ScopusStart == ScopusLocals(<<>>, 0, None)

\* How a pass through the body of the loop ends: at "loop" the locals are
\* those of the next pass, at "return" the call returns publications, at
\* "raised" an exception leaves the call.
Pass(exit, locals) == [exit |-> exit, locals |-> locals]

process_past_total(l, response) ==
    LET data == response.body
        search_results == Get(data, "search-results", EmptyObj)
        entries == Get(search_results, "entry", JList(<<>>))
    IN IF NoDict(data) \/ NoDict(search_results) THEN Pass("raised", l)
       ELSE IF l.total_results = None /\ total_raises(search_results)
       THEN Pass("raised", l)
       ELSE IF \/ entries.t # "list"
               \/ \E n \in 1..Len(entries.l) : scopus_entry_raises(entries.l[n])
       THEN Pass("raised", l)
       ELSE LET total_results ==
                    IF l.total_results = None THEN total(search_results)
                    ELSE Val(l.total_results)
                batch_pubs ==
                    [n \in 1..Len(entries.l) |-> scopus_entry(entries.l[n])]
                publications == l.publications \o batch_pubs
            IN IF Len(batch_pubs) < count_per_page
               THEN Pass("return", ScopusLocals(publications, l.start_index,
                                                Some(total_results)))
               ELSE Pass("loop",
                         ScopusLocals(publications,
                                      l.start_index + count_per_page,
                                      Some(total_results)))

\* The statements of the body after the status check, for the response
\* they read.
process(l, response) ==
    LET data == response.body
        search_results == Get(data, "search-results", EmptyObj)
        entries == Get(search_results, "entry", JList(<<>>))
    IN IF NoDict(data) \/ NoDict(search_results) THEN Pass("raised", l)
       ELSE IF l.total_results = None /\ total_raises(search_results)
       THEN Pass("raised", l)
       ELSE IF \/ entries.t # "list"
               \/ \E n \in 1..Len(entries.l) : scopus_entry_raises(entries.l[n])
       THEN Pass("raised", l)
       ELSE LET total_results ==
                    IF l.total_results = None THEN total(search_results)
                    ELSE Val(l.total_results)
                batch_pubs ==
                    [n \in 1..Len(entries.l) |-> scopus_entry(entries.l[n])]
                publications == l.publications \o batch_pubs
            IN IF \/ Len(publications) >= total_results
                  \/ Len(batch_pubs) < count_per_page
               THEN Pass("return", ScopusLocals(publications, l.start_index,
                                                Some(total_results)))
               ELSE Pass("loop",
                         ScopusLocals(publications,
                                      l.start_index + count_per_page,
                                      Some(total_results)))

\* The alternative request is issued: the first request was answered, and
\* not with 200.
asks_alternative(l, response) ==
    response # NoResponse /\ response.status # 200 /\ l.start_index = 0

scopus_pass_discards(l, response, alternative) ==
    IF response = NoResponse THEN Pass("return", ScopusStart)
    ELSE IF response.status = 200 THEN process(l, response)
    ELSE IF l.start_index # 0 THEN Pass("return", ScopusStart)
    ELSE IF alternative = NoResponse THEN Pass("return", l)
    ELSE IF alternative.status # 200
    THEN Pass("return", ScopusLocals(<<>>, l.start_index, l.total_results))
    ELSE process(l, alternative)

\* One pass through the body of the loop, for the response to the request
\* of the page and the response to the alternative request.
scopus_pass(l, response, alternative) ==
    IF response = NoResponse THEN Pass("return", l)
    ELSE IF response.status = 200 THEN process(l, response)
    ELSE IF l.start_index # 0 THEN Pass("return", l)
    ELSE IF alternative = NoResponse THEN Pass("return", l)
    ELSE IF alternative.status # 200
    THEN Pass("return", ScopusLocals(<<>>, l.start_index, l.total_results))
    ELSE process(l, alternative)

----------------------------------------------------------------------------
\* The answers of the services: for each request, the responses the model
\* draws from. NoResponse is a RequestException of session.get.

Bar == <<"B","a","r">>
Doi102b == <<"1","0",".","2","/","b">>

\* pub.orcid.org/v3.0/{orcid}: a profile with both names, and one whose
\* name is null (a private name).
ProfileResponses ==
    {NoResponse,
     Response(200, JObj("person" :> JObj("name" :>
         JObj("given-names" :> JObj("value" :> JStr(<<"A","d","a">>))
              @@ "family-name" :> JObj("value" :> JStr(<<"D","o","e">>)))))),
     Response(200, JObj("person" :> JObj("name" :> JNull)))}

\* A work of the list of works.
WorkFoo ==
    JObj("work-summary" :> JList(<<
        JObj("title" :> JObj("title" :> JObj("value" :> JStr(Foo)))
             @@ "type" :> JStr(<<"j","o","u","r","n","a","l","-","a","r","t","i","c","l","e">>)
             @@ "publication-date" :>
                    JObj("year" :> JObj("value" :> JStr(<<"2","0","2","0">>)))
             @@ "external-ids" :> JObj("external-id" :> JList(<<
                    JObj("external-id-type" :> JStr(<<"d","o","i">>)
                         @@ "external-id-value" :> JStr(Doi101X))>>)))>>))

\* pub.orcid.org/v3.0/{orcid}/works: a work, and with it a work without
\* external ids, as null.
WorksResponses ==
    {NoResponse, Response(404, JNull),
     Response(200, JObj("group" :> JList(<<WorkFoo>>))),
     Response(200, JObj("group" :> JList(<<WorkFoo,
         JObj("work-summary" :> JList(<<
             JObj("title" :> JObj("title" :> JObj("value" :> JStr(Bar)))
                  @@ "publication-date" :> JNull
                  @@ "external-ids" :> JNull)>>))>>)))}

\* api.crossref.org/works
CrossrefResponses ==
    {NoResponse,
     Response(200, JObj("message" :> JObj("items" :> JList(<<
         JObj("title" :> JList(<<JStr(Foo)>>)
              @@ "DOI" :> JStr(Doi101x)
              @@ "author" :> JList(<<JObj("given" :> JStr(<<"A","d","a">>)
                                          @@ "family" :> JStr(<<"D","o","e">>))>>)
              @@ "published" :> JObj("date-parts" :>
                                         JList(<<JList(<<JInt(2020)>>)>>))
              @@ "container-title" :> JList(<<JStr(<<"J">>)>>)
              @@ "volume" :> JStr(<<"7">>)),
         JObj("title" :> JList(<<JStr(Bar)>>)
              @@ "DOI" :> JStr(Doi102b)
              @@ "published" :> JObj("date-parts" :>
                                         JList(<<JList(<<JInt(2020)>>)>>)))>>))))}

\* api.semanticscholar.org/graph/v1/author/orcid:{orcid}, author/search
\* and author/{author_id}/papers
SsProfile == JObj("authorId" :> JStr(<<"7">>) @@ "name" :> JStr(<<"A","d","a"," ","D","o","e">>))

SsProfileResponses ==
    {NoResponse, Response(404, JNull), Response(200, SsProfile)}

SsSearchResponses ==
    {NoResponse, Response(200, JObj("data" :> JList(<<SsProfile>>))),
     Response(200, JObj("data" :> JList(<<>>)))}

\* A paper without a DOI.
PaperFoo ==
    JObj("title" :> JStr(foo) @@ "year" :> JInt(2020)
         @@ "authors" :> JList(<<JObj("name" :> JStr(<<"A","d","a"," ","D","o","e">>))>>)
         @@ "externalIds" :> JObj("ArXiv" :> JStr(<<"1">>))
         @@ "venue" :> JStr(<<>>)
         @@ "journal" :> JObj("name" :> JStr(<<"J">>))
         @@ "citationCount" :> JInt(5))

\* The paper, and with it a paper whose title is null.
SsPapersResponses ==
    {Response(500, JNull), Response(200, JObj("data" :> JList(<<PaperFoo>>))),
     Response(200, JObj("data" :> JList(<<PaperFoo,
         JObj("title" :> JNull @@ "year" :> JInt(2020)
              @@ "externalIds" :> JObj("DOI" :> JStr(Doi102b))
              @@ "citationCount" :> JInt(0))>>)))}

\* A work without a year.
ResultFoo ==
    JObj("title" :> JStr(Foo) @@ "publication_year" :> JNull
         @@ "doi" :> JStr(DoiOrg \o Doi101X)
         @@ "authorships" :> JList(<<
                JObj("author" :> JObj("display_name" :> JStr(<<"A","d","a"," ","D","o","e">>)))>>)
         @@ "primary_location" :>
                JObj("source" :> JObj("display_name" :> JStr(<<"J">>))
                     @@ "landing_page_url" :> JStr(<<"u">>))
         @@ "abstract_inverted_index" :>
                JObj("b" :> JList(<<JInt(1)>>) @@ "a" :> JList(<<JInt(0), JInt(2)>>))
         @@ "cited_by_count" :> JInt(3))

\* api.openalex.org/works: the work, with it a work whose title and DOI are
\* null, and a work whose primary_location is null.
OpenAlexResponses ==
    {NoResponse, Response(200, JObj("results" :> JList(<<ResultFoo>>))),
     Response(200, JObj("results" :> JList(<<ResultFoo,
         JObj("title" :> JNull @@ "publication_year" :> JInt(2021)
              @@ "doi" :> JNull
              @@ "primary_location" :> JObj("source" :> JNull))>>))),
     Response(200, JObj("results" :> JList(<<
         JObj("title" :> JStr(Bar) @@ "publication_year" :> JInt(2020)
              @@ "doi" :> JStr(DoiOrg \o Doi102b)
              @@ "primary_location" :> JNull)>>)))}

\* export.arxiv.org/api/query
ArxivResponses ==
    {NoResponse,
     Response(200, JList(<<
         JObj("title" :> JStr(<<" ","Q","u","x">> \o <<"\n">>)
              @@ "authors" :> JList(<<JStr(<<"A","d","a"," ","D","o","e"," ">>)>>)
              @@ "published" :> JStr(<<"2","0","1","9","-","0","1","-","0","1">>)
              @@ "id" :> JStr(<<"a","/","1">>))>>))}

\* dblp.org/search/author/api: no hit, and a hit.
DblpResponses ==
    {NoResponse,
     Response(200, JObj("result" :> JObj("hits" :>
         JObj("@total" :> JStr(<<"0">>))))),
     Response(200, JObj("result" :> JObj("hits" :> JObj("hit" :> JList(<<
         JObj("info" :> JObj("url" :> JStr(DblpPid \o <<"1","/","2">>)))>>)))))}

\* An article.
EntryBar ==
    JObj("type" :> JStr(publication_types[1])
         @@ "title" :> JStr(Bar) @@ "year" :> JStr(<<"2","0","2","0">>)
         @@ "journal" :> JStr(<<"J">>))

\* dblp.org/pid/{author_key}.xml: a paper in proceedings before the
\* article, and the article before one whose year is no numeral.
DblpPubResponses ==
    {Response(503, JNull),
     Response(200, JList(<<
         JObj("type" :> JStr(publication_types[2])
              @@ "title" :> JStr(<<"a","l","p","h","a">>)
              @@ "year" :> JStr(<<"2","0","2","1">>)
              @@ "booktitle" :> JStr(<<"C">>)
              @@ "ee" :> JList(<<JStr(<<"u">>),
                                 JStr(<<"h","t","t","p",":","/","/","d","o","i",".","o","r","g","/">> \o DoiFoo2020)>>)),
         EntryBar>>)),
     Response(200, JList(<<EntryBar,
         JObj("type" :> JStr(publication_types[1])
              @@ "title" :> JStr(Bar)
              @@ "year" :> JStr(<<"i","n"," ","p","r","e","s","s">>))>>))}

\* api.elsevier.com/content/search/scopus: full pages and a short one, with
\* the total as a numeral, as text that is no numeral, as a list and as a
\* JSON number.
EntryA ==
    JObj("dc:title" :> JStr(Foo) @@ "prism:doi" :> JStr(Doi101X)
         @@ "prism:coverDate" :> JStr(<<"2","0","2","0","-","0","5","-","0","1">>)
         @@ "author" :> JList(<<JObj("authname" :> JStr(<<"D","o","e"," ","A",".">>))>>)
         @@ "citedby-count" :> JStr(<<"3">>))

EntryB ==
    JObj("dc:title" :> JStr(<<"Z","e","d">>)
         @@ "author" :> JObj("given-name" :> JStr(<<"A","d","a">>)
                             @@ "surname" :> JStr(<<"D","o","e">>))
         @@ "citedby-count" :> JStr(<<"0">>))

Page(entries, totalResults) ==
    JObj("search-results" :> JObj("opensearch:totalResults" :> totalResults
                                  @@ "entry" :> JList(entries)))

FullPage(entry) == [n \in 1..count_per_page |-> entry]

ScopusResponses ==
    {NoResponse, Response(429, JNull),
     Response(200, Page(FullPage(EntryA), JStr(<<"6","0">>))),
     Response(200, Page(FullPage(EntryB), JStr(<<"n","/","a">>))),
     Response(200, Page(<<EntryB>>, JList(<<JObj("@value" :> JStr(<<"1">>))>>))),
     Response(200, Page(FullPage(EntryA), JInt(60)))}

\* The command line: the ORCID argument, --sort and --reverse.
Orcids ==
    {<<"0","0","0","0","-","0","0","0","2","-","1","8","2","5","-","0","0","9","X">>,
     <<"0","0","0","0","-","0","0","0","2","-","1","8","2","5","-","0","0","9","x">>,
     <<"0","0","0","0","-","0","0","0","2","-","1","8","2","5">>,
     <<>>}

SortArgs ==
    {None, Some(<<"t","i","t","l","e">>), Some(<<"c","i","t","a","t","i","o","n","s">>),
     Some(<<"d","a","t","e">>)}

----------------------------------------------------------------------------
\* main: the check of the argument and the sort

\* re.match(r"^\d{4}-\d{4}-\d{4}-\d{3}[\dX]$", s): "$" matches at the end
\* and before a newline at the end.
orcid_match(s) ==
    LET t == IF Len(s) = 20 /\ s[20] = "\n" THEN SubSeq(s, 1, 19) ELSE s
    IN /\ Len(t) = 19
       /\ \A n \in 1..19 :
              IF n \in {5, 10, 15} THEN t[n] = "-"
              ELSE IF n = 19 THEN IsDigit(t[n]) \/ t[n] = "X"
              ELSE IsDigit(t[n])

\* ord(c) of a printable character: its place in the order of the code
\* points, from 32 ("grave" at the place of the grave accent, code point
\* 96).
ord(c) ==
    LET Ascii ==
            <<
            " ","!","\"","#","$","%","&","'","(",")","*","+",",","-",".","/",
            "0","1","2","3","4","5","6","7","8","9",":",";","<","=",">","?",
            "@","A","B","C","D","E","F","G","H","I","J","K","L","M","N","O",
            "P","Q","R","S","T","U","V","W","X","Y","Z","[","\\","]","^","_",
            "grave","a","b","c","d","e","f","g","h","i","j","k","l","m","n","o",
            "p","q","r","s","t","u","v","w","x","y","z","{","|","}","~">>
    IN 31 + (CHOOSE n \in 1..Len(Ascii) : Ascii[n] = c)

RECURSIVE StrLess(_, _)
\* s < t of two str
StrLess(s, t) ==
    IF t = <<>> THEN FALSE
    ELSE IF s = <<>> THEN TRUE
    ELSE IF s[1] = t[1] THEN StrLess(Tail(s), Tail(t))
    ELSE ord(s[1]) < ord(t[1])

\* sort_key = args.sort if args.sort else "year"
sort_key_of(sort) == IF TruthyStr(sort) THEN Val(sort) ELSE <<"y","e","a","r">>

\* The list is sorted: sort_key is one of the three keys.
Sorts(sort_key) ==
    sort_key \in {<<"y","e","a","r">>, <<"t","i","t","l","e">>, <<"c","i","t","a","t","i","o","n","s">>}

sort_value_missing_last(x, sort_key) ==
    IF sort_key = <<"y","e","a","r">>
    THEN (IF x.year = None THEN 9999 ELSE Val(x.year))
    ELSE IF sort_key = <<"t","i","t","l","e">> THEN lower(x.title)
    ELSE (IF x.citations = None THEN 9999 ELSE Val(x.citations))

\* The value of the key function of the sort for the record x.
sort_value(x, sort_key) ==
    IF sort_key = <<"y","e","a","r">>
    THEN (IF TruthyInt(x.year) THEN Val(x.year) ELSE 0)
    ELSE IF sort_key = <<"t","i","t","l","e">> THEN lower(x.title)
    ELSE (IF TruthyInt(x.citations) THEN Val(x.citations) ELSE 0)

\* The key function raises AttributeError: None has no method lower.
sort_raises(l, sort_key) ==
    sort_key = <<"t","i","t","l","e">> /\ \E n \in 1..Len(l) : l[n].title = NoTitle

\* a < b of two values of the key function
value_less(a, b, sort_key) ==
    IF sort_key = <<"t","i","t","l","e">> THEN StrLess(a, b) ELSE a < b

RECURSIVE stable_sort(_, _)
\* The records of l in ascending order of the key, those of equal keys in
\* the order they have in l: the last record is put into the sorted list
\* of the others after the records that are not greater.
stable_sort(l, sort_key) ==
    IF l = <<>> THEN <<>>
    ELSE LET x == l[Len(l)]
             sorted == stable_sort(SubSeq(l, 1, Len(l) - 1), sort_key)
             after == {n \in 1..Len(sorted) :
                          ~value_less(sort_value(x, sort_key),
                                      sort_value(sorted[n], sort_key),
                                      sort_key)}
             last == IF after = {} THEN 0
                     ELSE CHOOSE n \in after : \A m \in after : m <= n
         IN SubSeq(sorted, 1, last) \o <<x>>
                \o SubSeq(sorted, last + 1, Len(sorted))

reversed(l) == [n \in 1..Len(l) |-> l[Len(l) + 1 - n]]

list_sort_reverse_after(l, sort_key, reverse) ==
    IF reverse THEN reversed(stable_sort(l, sort_key))
    ELSE stable_sort(l, sort_key)

\* l.sort(key=..., reverse=reverse): with reverse the list is reversed,
\* sorted and reversed again, which keeps the order of equal keys.
list_sort(l, sort_key, reverse) ==
    IF reverse THEN reversed(stable_sort(reversed(l), sort_key))
    ELSE stable_sort(l, sort_key)

----------------------------------------------------------------------------
\* The output: save_to_csv, save_to_bibtex and the output step of main
\*
\* A call that writes a file is a record of whether an exception left it and
\* of what the file holds then, row by row or entry by entry.

fieldnames ==
    <<"title", "authors", "year", "journal", "volume", "issue", "pages",
      "doi", "url", "citations", "type", "source">>

\* The row of pub_dict as csv.DictWriter writes it, a cell per name of
\* fieldnames: None is the empty cell, an int its numeral.
csv_row(pub) ==
    LET text(o) == IF o = None THEN <<>> ELSE Val(o)
        number(o) == IF o = None THEN <<>> ELSE IntStr(Val(o))
    IN <<IF pub.title = NoTitle THEN <<>> ELSE pub.title,
         IF TruthyList(pub.authors) THEN join(<<";"," ">>, pub.authors) ELSE <<>>,
         number(pub.year), text(pub.journal), text(pub.volume),
         text(pub.issue), text(pub.pages), text(pub.doi), text(pub.url),
         number(pub.citations), text(pub.type), pub.source>>

\* writer.writerow(pub_dict) raises ValueError when pub_dict has a key that
\* fieldnames lacks (extrasaction is "raise"): pub_dict is vars(pub) and has
\* every field of Publication as a key. The header is written before.
save_to_csv(publications) ==
    LET wrong_fields == Fields \ {fieldnames[n] : n \in 1..Len(fieldnames)}
    IN IF publications # <<>> /\ wrong_fields # {}
       THEN [raised |-> TRUE, file |-> <<fieldnames>>]
       ELSE [raised |-> FALSE,
             file |-> <<fieldnames>> \o
                      [n \in 1..Len(publications) |-> csv_row(publications[n])]]

\* pub.authors[0].split()[-1] raises IndexError: the first author has no
\* word.
first_author_raises(pub) ==
    TruthyList(pub.authors) /\ strip(pub.authors[1]) = <<>>

\* pub.authors[0].split()[-1].lower(), "" without authors
first_author(pub) ==
    LET RECURSIVE last(_)
        last(s) ==
            IF s = <<>> \/ s[Len(s)] \in {" ", "\t", "\n", "\r"} THEN <<>>
            ELSE last(SubSeq(s, 1, Len(s) - 1)) \o <<s[Len(s)]>>
    IN IF TruthyList(pub.authors)
       THEN lower(last(strip(pub.authors[1]))) ELSE <<>>

\* entry_type, from pub.type
entry_type(type) ==
    LET t == lower(Val(type))
    IN IF ~TruthyStr(type) THEN "article"
       ELSE IF OccursIn(<<"c","o","n","f","e","r","e","n","c","e">>, t) \/ OccursIn(<<"p","r","o","c","e","e","d","i","n","g","s">>, t) THEN "inproceedings"
       ELSE IF OccursIn(<<"b","o","o","k">>, t) THEN "book"
       ELSE IF OccursIn(<<"t","h","e","s","i","s">>, t)
       THEN (IF OccursIn(<<"p","h","d">>, t) THEN "phdthesis" ELSE "mastersthesis")
       ELSE "article"

\* The entry of pub at position i (from 0): its type, its key and its fields
\* in the order they are written.
bibtex_entry(pub, i) ==
    LET field(name, o) ==
            IF TruthyStr(o) THEN <<[name |-> name, value |-> Val(o)]>> ELSE <<>>
    IN [entry_type |-> entry_type(pub.type),
        citation_key |-> first_author(pub) \o YearStr(pub.year) \o IntStr(i),
        fields |->
            (IF TruthyList(pub.authors)
             THEN <<[name |-> "author",
                     value |-> join(<<" ","a","n","d"," ">>, pub.authors)]>>
             ELSE <<>>)
            \o <<[name |-> "title",
                  value |-> IF pub.title = NoTitle THEN <<"N","o","n","e">>
                                                   ELSE pub.title]>>
            \o (IF TruthyInt(pub.year)
                THEN <<[name |-> "year", value |-> IntStr(Val(pub.year))]>>
                ELSE <<>>)
            \o field(IF entry_type(pub.type) = "article" THEN "journal"
                                                         ELSE "booktitle",
                     pub.journal)
            \o field("volume", pub.volume) \o field("number", pub.issue)
            \o field("pages", pub.pages) \o field("publisher", pub.publisher)
            \o field("doi", pub.doi) \o field("url", pub.url)]

\* The entries are written one by one: an exception leaves the entries of
\* the records before it in the file.
save_to_bibtex(publications) ==
    LET failing == {n \in 1..Len(publications) :
                       first_author_raises(publications[n])}
        stop == IF failing = {} THEN Len(publications) + 1
                ELSE CHOOSE n \in failing : \A m \in failing : n <= m
    IN [raised |-> failing # {},
        file |-> [n \in 1..(stop - 1) |-> bibtex_entry(publications[n], n - 1)]]

\* args.output: a name of one of the three file formats, or absent (any
\* other value is the text format as well)
OutputArgs ==
    {None, Some(<<"j","s","o","n">>), Some(<<"c","s","v">>), Some(<<"b","i","b","t","e","x">>)}

VARIABLES
    heap,               \* the Publication objects, by reference
    input,              \* the objects as they were before the first call
    publications_list,  \* the argument of the call
    merged,             \* the dict of the call
    idx,                \* position of the for loop in publications_list
    pc,                 \* "loop", "returned" or "raised"
    result,             \* the returned list
    into,               \* for each looped-over reference, the primary it went to
    call,               \* 1: the call on the input, 2: the call on its result
    first,              \* the records the first call returned
    orcid,              \* main: args.orcid
    sort,               \* main: args.sort, read at the sort
    reverse,            \* main: args.reverse, read at the sort
    at,                 \* main: the statement it is at
    session,            \* main: create_session was called
    contacted,          \* the hosts a request was sent to
    all_publications,   \* main: the list the adapters' lists are added to
    scopus,             \* the locals of get_scopus_publications
    merged_pubs,        \* main: the list merge_publications returned
    written,            \* the records handed to the output
    status,             \* the exit status of the run, None while it runs
    calls,              \* history: the functions main called, in order
    returned,           \* history: the lists the adapters returned, in order
    fetched,            \* history: the batches of the Scopus pages, in order
    scopus_end,         \* history: how the call of the Scopus adapter ended
    unsorted,           \* history: merged_pubs before the sort
    ref_dict,           \* check_crossref: its argument
    crossref_result,    \* check_crossref: how the call ended, None before
    pair,               \* the two Publication records that are compared
    hashed              \* their ==, and their hash values, None before

mergevars == <<heap, input, publications_list, merged, idx, pc, result, into,
               call, first>>

mainvars == <<orcid, sort, reverse, at, session, contacted, all_publications,
              scopus, merged_pubs, written, status, calls, returned, fetched,
              scopus_end, unsorted>>

othervars == <<ref_dict, crossref_result, pair, hashed>>

vars == <<mergevars, mainvars, othervars>>

\* main is not running.
MainIdle ==
    /\ orcid = <<>>
    /\ sort = None
    /\ reverse = FALSE
    /\ at = "idle"
    /\ session = FALSE
    /\ contacted = {}
    /\ all_publications = <<>>
    /\ scopus = ScopusStart
    /\ merged_pubs = <<>>
    /\ written = <<>>
    /\ status = None
    /\ calls = <<>>
    /\ returned = <<>>
    /\ fetched = <<>>
    /\ scopus_end = "none"
    /\ unsorted = <<>>

\* Nothing but main and merge_publications is running.
OtherIdle ==
    /\ ref_dict = <<>>
    /\ crossref_result = None
    /\ pair = <<>>
    /\ hashed = None

Refs == DOMAIN heap

Init ==
    /\ \E n \in 0..MaxLen : heap \in [1..n -> Catalogue]
    /\ input = heap
    /\ publications_list = [n \in DOMAIN heap |-> n]
    /\ merged = <<>>
    /\ idx = 1
    /\ pc = "loop"
    /\ result = <<>>
    /\ into = [n \in DOMAIN heap |-> 0]
    /\ call = 1
    /\ first = <<>>
    /\ MainIdle
    /\ OtherIdle

\* if key not in merged: merged[key] = pub
Insert ==
    /\ pc = "loop"
    /\ idx <= Len(publications_list)
    /\ LET pub == publications_list[idx]
           k == key(heap[pub])
       IN /\ ~key_raises(heap[pub])
          /\ ~contains(merged, k)
          /\ merged' = setitem(merged, k, pub)
          /\ into' = [into EXCEPT ![pub] = pub]
    /\ idx' = idx + 1
    /\ UNCHANGED <<heap, input, publications_list, pc, result, call, first>>
    /\ UNCHANGED <<mainvars, othervars>>

\* else: existing = merged[key]; the assignments to existing's fields
Merge ==
    /\ pc = "loop"
    /\ idx <= Len(publications_list)
    /\ LET pub == publications_list[idx]
           k == key(heap[pub])
       IN /\ ~key_raises(heap[pub])
          /\ contains(merged, k)
          /\ LET existing == getitem(merged, k)
             IN /\ heap' = [heap EXCEPT
                               ![existing] = merge_into(heap[existing], heap[pub])]
                /\ into' = [into EXCEPT ![pub] = existing]
    /\ idx' = idx + 1
    /\ UNCHANGED <<input, publications_list, merged, pc, result, call, first>>
    /\ UNCHANGED <<mainvars, othervars>>

\* The exception of the key computation leaves merge_publications.
Raise ==
    /\ pc = "loop"
    /\ idx <= Len(publications_list)
    /\ key_raises(heap[publications_list[idx]])
    /\ pc' = "raised"
    /\ UNCHANGED <<heap, input, publications_list, merged, idx, result, into,
                   call, first>>
    /\ UNCHANGED <<mainvars, othervars>>

\* return list(merged.values())
Return ==
    /\ pc = "loop"
    /\ idx > Len(publications_list)
    /\ result' = values(merged)
    /\ pc' = "returned"
    /\ UNCHANGED <<heap, input, publications_list, merged, idx, into, call,
                   first>>
    /\ UNCHANGED <<mainvars, othervars>>

\* merge_publications(merge_publications(xs)): the call on the returned list
Reapply ==
    /\ pc = "returned"
    /\ call = 1
    /\ call' = 2
    /\ first' = [n \in 1..Len(result) |-> heap[result[n]]]
    /\ publications_list' = result
    /\ merged' = <<>>
    /\ idx' = 1
    /\ pc' = "loop"
    /\ result' = <<>>
    /\ into' = [n \in DOMAIN heap |-> 0]
    /\ UNCHANGED <<heap, input>>
    /\ UNCHANGED <<mainvars, othervars>>

Next == Insert \/ Merge \/ Raise \/ Return \/ Reapply

Spec == Init /\ [][Next]_vars

\* One call of merge_publications on records of OrderCatalogue.
OrderInit ==
    /\ \E n \in 0..MaxOrderLen : heap \in [1..n -> OrderCatalogue]
    /\ input = heap
    /\ publications_list = [n \in DOMAIN heap |-> n]
    /\ merged = <<>>
    /\ idx = 1
    /\ pc = "loop"
    /\ result = <<>>
    /\ into = [n \in DOMAIN heap |-> 0]
    /\ call = 1
    /\ first = <<>>
    /\ MainIdle
    /\ OtherIdle

OrderNext == Insert \/ Merge \/ Return

OrderSpec == OrderInit /\ [][OrderNext]_vars

----------------------------------------------------------------------------
\* main

\* A run of main on an argument: the merge variables stay as they are.
MainInit ==
    /\ heap = <<>>
    /\ input = <<>>
    /\ publications_list = <<>>
    /\ merged = <<>>
    /\ idx = 1
    /\ pc = "idle"
    /\ result = <<>>
    /\ into = <<>>
    /\ call = 1
    /\ first = <<>>
    /\ orcid \in Orcids
    /\ sort = None
    /\ reverse = FALSE
    /\ at = "validate"
    /\ session = FALSE
    /\ contacted = {}
    /\ all_publications = <<>>
    /\ scopus = ScopusStart
    /\ merged_pubs = <<>>
    /\ written = <<>>
    /\ status = None
    /\ calls = <<>>
    /\ returned = <<>>
    /\ fetched = <<>>
    /\ scopus_end = "none"
    /\ unsorted = <<>>
    /\ OtherIdle

\* An exception leaves main: the interpreter prints the traceback and exits
\* with status 1.
Uncaught ==
    /\ at' = "raised"
    /\ status' = Some(1)

Validate_session_first ==
    /\ at = "validate"
    /\ session' = TRUE
    /\ IF ~orcid_match(orcid)
       THEN at' = "exit" /\ status' = Some(1)
       ELSE at' = "profile" /\ UNCHANGED status
    /\ UNCHANGED <<othervars, mergevars, orcid, sort, reverse, contacted,
                   all_publications, scopus, merged_pubs, written, calls,
                   returned, fetched, scopus_end, unsorted>>

\* The check of args.orcid, return 1 or session = create_session()
Validate ==
    /\ at = "validate"
    /\ IF ~orcid_match(orcid)
       THEN at' = "exit" /\ status' = Some(1) /\ UNCHANGED session
       ELSE at' = "profile" /\ session' = TRUE /\ UNCHANGED status
    /\ UNCHANGED <<othervars, mergevars, orcid, sort, reverse, contacted,
                   all_publications, scopus, merged_pubs, written, calls,
                   returned, fetched, scopus_end, unsorted>>

\* profile = get_orcid_profile(session, args.orcid) and the print of the
\* name of the author
Profile ==
    /\ at = "profile"
    /\ \E response \in ProfileResponses :
          LET profile == get_orcid_profile(response)
          IN IF JTruthy(profile) /\ names_raise(profile)
             THEN Uncaught
             ELSE at' = "orcid_works" /\ UNCHANGED status
    /\ contacted' = contacted \cup {"pub.orcid.org"}
    /\ calls' = Append(calls, "get_orcid_profile")
    /\ UNCHANGED <<othervars, mergevars, orcid, sort, reverse, session, all_publications,
                   scopus, merged_pubs, written, returned, fetched,
                   scopus_end, unsorted>>

\* pubs = name(session, ...); all_publications.extend(pubs), where the call
\* comes to out and sends requests to hosts; main goes on at next.
Extend(name, out, hosts, next) ==
    /\ calls' = Append(calls, name)
    /\ contacted' = contacted \cup hosts
    /\ IF out.raised
       THEN Uncaught /\ UNCHANGED <<all_publications, returned>>
       ELSE /\ at' = next
            /\ all_publications' = all_publications \o out.pubs
            /\ returned' = Append(returned, out.pubs)
            /\ UNCHANGED status
    /\ UNCHANGED <<othervars, mergevars, orcid, sort, reverse, session, scopus,
                   merged_pubs, written, fetched, scopus_end,
                   unsorted>>

OrcidWorks ==
    /\ at = "orcid_works"
    /\ \E response \in WorksResponses :
          Extend("get_orcid_works", get_orcid_works(response),
                 {"pub.orcid.org"}, "crossref")

Crossref ==
    /\ at = "crossref"
    /\ \E response \in CrossrefResponses :
          Extend("get_crossref_publications",
                 get_crossref_publications(response), {"api.crossref.org"},
                 "semantic_scholar")

\* ss_profile = get_semantic_scholar_profile(...) and the call of
\* get_semantic_scholar_publications for its authorId
SemanticScholar ==
    /\ at = "semantic_scholar"
    /\ \E response \in SsProfileResponses, orcid_response \in ProfileResponses,
          search_response \in SsSearchResponses,
          papers_response \in SsPapersResponses :
          LET ss == get_semantic_scholar_profile(response, orcid_response,
                                                 search_response)
              hosts == IF response # NoResponse /\ response.status = 404
                       THEN {"api.semanticscholar.org", "pub.orcid.org"}
                       ELSE {"api.semanticscholar.org"}
          IN IF ss.raised \/ ss_author_id_raises(ss.profile)
             THEN /\ Uncaught
                  /\ calls' = Append(calls, "get_semantic_scholar_profile")
                  /\ contacted' = contacted \cup hosts
                  /\ UNCHANGED <<all_publications, returned>>
             ELSE IF JTruthy(ss_author_id(ss.profile))
             THEN LET out == get_semantic_scholar_publications(papers_response)
                  IN /\ calls' = calls \o <<"get_semantic_scholar_profile",
                                           "get_semantic_scholar_publications">>
                     /\ contacted' = contacted \cup hosts
                     /\ IF out.raised
                        THEN Uncaught /\ UNCHANGED <<all_publications, returned>>
                        ELSE /\ at' = "openalex"
                             /\ all_publications' = all_publications \o out.pubs
                             /\ returned' = Append(returned, out.pubs)
                             /\ UNCHANGED status
             ELSE /\ at' = "openalex"
                  /\ calls' = Append(calls, "get_semantic_scholar_profile")
                  /\ contacted' = contacted \cup hosts
                  /\ UNCHANGED <<all_publications, returned, status>>
    /\ UNCHANGED <<othervars, mergevars, orcid, sort, reverse, session, scopus,
                   merged_pubs, written, fetched, scopus_end,
                   unsorted>>

OpenAlex ==
    /\ at = "openalex"
    /\ \E response \in OpenAlexResponses :
          Extend("get_openalex_publications",
                 get_openalex_publications(response), {"api.openalex.org"},
                 "arxiv")

Arxiv ==
    /\ at = "arxiv"
    /\ \E profile_response \in ProfileResponses, response \in ArxivResponses :
          Extend("get_arxiv_publications",
                 get_arxiv_publications(profile_response, response),
                 IF JTruthy(get_orcid_profile(profile_response))
                     /\ ~names_raise(get_orcid_profile(profile_response))
                     /\ has_names(get_orcid_profile(profile_response))
                 THEN {"pub.orcid.org", "export.arxiv.org"}
                 ELSE {"pub.orcid.org"},
                 "dblp")

Dblp ==
    /\ at = "dblp"
    /\ \E response \in DblpResponses, pub_response \in DblpPubResponses :
          Extend("get_dblp_publications",
                 get_dblp_publications(response, pub_response), {"dblp.org"},
                 "scopus")

\* The request of a pass of the Scopus loop fails: an exception, or a
\* status other than 200 that no alternative request makes up for.
pass_failed(l, response, alternative) ==
    \/ response = NoResponse
    \/ /\ response.status # 200
       /\ \/ l.start_index # 0
          \/ alternative = NoResponse
          \/ alternative.status # 200

\* scopus_pubs = get_scopus_publications(...), one pass of its loop at a
\* time; all_publications.extend(scopus_pubs) after the last
Scopus ==
    /\ at = "scopus"
    /\ \E response \in ScopusResponses :
       \E alternative \in IF asks_alternative(scopus, response)
                           THEN ScopusResponses ELSE {NoResponse} :
          LET pass == scopus_pass(scopus, response, alternative)
              batch_pubs == SubSeq(pass.locals.publications,
                                   Len(scopus.publications) + 1,
                                   Len(pass.locals.publications))
              failed == pass_failed(scopus, response, alternative)
          IN /\ scopus' = IF pass.exit = "loop" THEN pass.locals
                           ELSE ScopusStart
             /\ fetched' = IF failed \/ pass.exit = "raised" THEN fetched
                           ELSE Append(fetched, batch_pubs)
             /\ CASE pass.exit = "loop" ->
                       /\ UNCHANGED <<at, all_publications, returned, status,
                                      scopus_end>>
                  [] pass.exit = "return" ->
                       /\ at' = "merge"
                       /\ all_publications' =
                              all_publications \o pass.locals.publications
                       /\ returned' = Append(returned, pass.locals.publications)
                       /\ scopus_end' = IF failed THEN "failed" ELSE "done"
                       /\ UNCHANGED status
                  [] pass.exit = "raised" ->
                       /\ Uncaught
                       /\ scopus_end' = "raised"
                       /\ UNCHANGED <<all_publications, returned>>
    /\ calls' = IF scopus.total_results = None
                THEN Append(calls, "get_scopus_publications") ELSE calls
    /\ contacted' = contacted \cup {"api.elsevier.com"}
    /\ UNCHANGED <<othervars, mergevars, orcid, sort, reverse, session, merged_pubs,
                   written, unsorted>>

\* merged_pubs = merge_publications(all_publications)
CallMerge ==
    /\ at = "merge"
    /\ calls' = Append(calls, "merge_publications")
    /\ IF merge_raises(all_publications)
       THEN Uncaught /\ UNCHANGED merged_pubs
       ELSE /\ merged_pubs' = merge_publications(all_publications)
            /\ at' = "sort"
            /\ UNCHANGED status
    /\ UNCHANGED <<othervars, mergevars, orcid, sort, reverse, session, contacted,
                   all_publications, scopus, written, returned, fetched,
                   scopus_end, unsorted>>

\* merged_pubs.sort(key=..., reverse=reverse) for one of the three keys
Sort ==
    /\ at = "sort"
    /\ sort' \in SortArgs
    /\ reverse' \in BOOLEAN
    /\ calls' = Append(calls, "sort")
    /\ unsorted' = merged_pubs
    /\ LET sort_key == sort_key_of(sort')
       IN IF ~Sorts(sort_key)
          THEN at' = "output" /\ UNCHANGED <<merged_pubs, status>>
          ELSE IF sort_raises(merged_pubs, sort_key)
          THEN Uncaught /\ UNCHANGED merged_pubs
          ELSE /\ merged_pubs' = list_sort(merged_pubs, sort_key, reverse')
               /\ at' = "output"
               /\ UNCHANGED status
    /\ UNCHANGED <<othervars, mergevars, orcid, session, contacted, all_publications,
                   scopus, written, returned, fetched, scopus_end>>

\* The output of merged_pubs in the format of args.output, return 0. The
\* <<"j","s","o","n">> file holds an object and the text one citation of every record, in
\* the order of merged_pubs: they stand as the records themselves.
WriteOutput ==
    /\ at = "output"
    /\ \E output \in OutputArgs :
          LET output_format ==
                  IF TruthyStr(output) THEN Val(output) ELSE <<"t","e","x","t">>
              saved ==
                  IF output_format = <<"c","s","v">> THEN save_to_csv(merged_pubs)
                  ELSE IF output_format = <<"b","i","b","t","e","x">>
                  THEN save_to_bibtex(merged_pubs)
                  ELSE [raised |-> FALSE, file |-> merged_pubs]
          IN /\ calls' = Append(calls,
                     IF output_format = <<"j","s","o","n">> THEN "save_to_json"
                     ELSE IF output_format = <<"c","s","v">> THEN "save_to_csv"
                     ELSE IF output_format = <<"b","i","b","t","e","x">> THEN "save_to_bibtex"
                     ELSE "format_citation")
             /\ written' = saved.file
             /\ IF saved.raised
                THEN Uncaught
                ELSE status' = Some(0) /\ at' = "exit"
    /\ UNCHANGED <<othervars, mergevars, orcid, sort, reverse, session, contacted,
                   all_publications, scopus, merged_pubs, returned, fetched,
                   scopus_end, unsorted>>

MainNext ==
    \/ Validate
    \/ Profile
    \/ OrcidWorks
    \/ Crossref
    \/ SemanticScholar
    \/ OpenAlex
    \/ Arxiv
    \/ Dblp
    \/ Scopus
    \/ CallMerge
    \/ Sort
    \/ WriteOutput

MainSpec == MainInit /\ [][MainNext]_vars

----------------------------------------------------------------------------
\* The output step on any list of records

\* Longest list handed to the output.
MaxSaveLen == 2

\* A record of two authors, or of the given ones, with a type.
Typed(authors, year, type) ==
    [Full(Foo, year, Some(Doi101X), SrcA) EXCEPT !.authors = authors,
                                                 !.type = type]

AdaDoe == <<"A","d","a"," ","D","o","e">>

\* Records of every kind of type, with and without authors, and one whose
\* first author is the empty name.
SaveCatalogue ==
    { Typed(<<AdaDoe>>, Some(2020), None),
      Typed(<<AdaDoe>>, Some(2020), Some(<<>>)),
      Typed(<<AdaDoe>>, Some(2020), Some(<<"C","o","n","f","e","r","e","n","c","e"," ","P","a","p","e","r">>)),
      Typed(<<AdaDoe>>, None, Some(<<"p","r","o","c","e","e","d","i","n","g","s","-","a","r","t","i","c","l","e">>)),
      Typed(<<AdaDoe>>, Some(2020), Some(<<"B","o","o","k"," ","C","h","a","p","t","e","r">>)),
      Typed(<<AdaDoe>>, Some(2020), Some(<<"C","o","n","f","e","r","e","n","c","e"," ","B","o","o","k">>)),
      Typed(<<AdaDoe>>, Some(2020), Some(<<"P","h","D"," ","T","h","e","s","i","s">>)),
      Typed(<<AdaDoe>>, Some(2020), Some(<<"M","a","s","t","e","r"," ","T","h","e","s","i","s">>)),
      Typed(<<AdaDoe>>, Some(2020), Some(<<"j","o","u","r","n","a","l","-","a","r","t","i","c","l","e">>)),
      Typed(<<AdaDoe>>, Some(2020), Some(<<"T","h","e","s","i","s"," ","P","r","o","c","e","e","d","i","n","g","s">>)),
      Typed(<<AdaDoe>>, Some(2020), Some(<<"p","h","d">>)),
      Typed(<<>>, Some(2020), Some(<<"C","o","n","f","e","r","e","n","c","e"," ","P","a","p","e","r">>)),
      Typed(<<AdaDoe, <<"B","o">> >>, Some(0), Some(<<"j","o","u","r","n","a","l","-","a","r","t","i","c","l","e">>)),
      Typed(<< <<>>, AdaDoe>>, Some(2020), Some(<<"B","o","o","k"," ","C","h","a","p","t","e","r">>)) }

\* The merge variables of a run that does not call merge_publications
\* step by step.
MergeIdle ==
    /\ heap = <<>>
    /\ input = <<>>
    /\ publications_list = <<>>
    /\ merged = <<>>
    /\ idx = 1
    /\ pc = "idle"
    /\ result = <<>>
    /\ into = <<>>
    /\ call = 1
    /\ first = <<>>

\* main at its output step, with any list as merged_pubs.
SaveInit ==
    /\ MergeIdle
    /\ OtherIdle
    /\ orcid = <<"0","0","0","0","-","0","0","0","2","-","1","8","2","5","-","0","0","9","X">>
    /\ sort = None
    /\ reverse = FALSE
    /\ at = "output"
    /\ session = TRUE
    /\ contacted = {}
    /\ all_publications = <<>>
    /\ scopus = ScopusStart
    /\ \E n \in 0..MaxSaveLen : merged_pubs \in [1..n -> SaveCatalogue]
    /\ written = <<>>
    /\ status = None
    /\ calls = <<>>
    /\ returned = <<>>
    /\ fetched = <<>>
    /\ scopus_end = "none"
    /\ unsorted = <<>>

SaveSpec == SaveInit /\ [][WriteOutput]_vars

----------------------------------------------------------------------------
\* scripts/dtcc-check-bib.py: check_crossref

\* The references as parse_reference hands them over: a title, a journal
\* and the four digits of a year, or None without a year in brackets.
RefDicts ==
    [title : {Foo, TitleB, <<>>}, journal : {<<"J">>, <<>>, AdaDoe},
     year : {None, Some(<<"2","0","1","8">>)}]

\* f"{ref_dict['title']} {ref_dict['journal']} {ref_dict['year']}"
query_str(ref) ==
    ref.title \o <<" ">> \o ref.journal \o <<" ">>
        \o (IF ref.year = None THEN <<"N","o","n","e">> ELSE Val(ref.year))

\* The item of the top match, as the works route gives it.
TopMatch ==
    JObj("DOI" :> JStr(Doi101X) @@ "title" :> JList(<<JStr(Foo)>>)
         @@ "published-print" :>
                JObj("date-parts" :> JList(<<JList(<<JInt(2018), JInt(5)>>)>>))
         @@ "publisher" :> JStr(<<"P">>))

\* api.crossref.org/works: no answer, an error status, no match, a match, a
\* match that has a DOI only, a match with a title that is the empty list
\* and no date parts, and an answer without message.
BibResponses ==
    {NoResponse, Response(404, JNull),
     Response(200, JObj("message" :> JObj("items" :> JList(<<>>)))),
     Response(200, JObj("message" :> JObj("items" :> JList(<<TopMatch>>)))),
     Response(200, JObj("message" :> JObj("items" :> JList(<<
         JObj("DOI" :> JStr(Doi101x))>>)))),
     Response(200, JObj("message" :> JObj("items" :> JList(<<
         JObj("title" :> JList(<<>>)
              @@ "published-print" :> JObj("date-parts" :> JList(<<>>)))>>)))),
     Response(200, JObj("status" :> JStr(<<"e","r","r","o","r">>)))}

\* The lines of the try block raise an exception that is no
\* RequestException: KeyError or TypeError of data["message"]["items"] and
\* of [0], AttributeError of .get, IndexError of [0][0].
check_crossref_raises(response) ==
    LET data == response.body
        items == data.o["message"].o["items"]
        top_match == items.l[1]
        title == Get(top_match, "title", JNull)
        date_parts == Get(Get(top_match, "published-print", EmptyObj),
                          "date-parts", JList(<<JList(<<JNull>>)>>))
    IN /\ ~RequestFailed(response)
       /\ \/ ~In("message", data)
          \/ ~In("items", data.o["message"])
          \/ /\ JTruthy(items)
             /\ \/ items.t # "list"
                \/ NoDict(top_match)
                \/ JTruthy(title) /\ title.t \notin {"list", "str"}
                \/ NoDict(Get(top_match, "published-print", EmptyObj))
                \/ date_parts.t # "list"
                \/ date_parts.l = <<>>
                \/ date_parts.l[1].t # "list"
                \/ date_parts.l[1].l = <<>>

\* The value check_crossref returns, when it does not raise: the dict of
\* the top match, or {"found": False}.
check_crossref(response) ==
    LET items == response.body.o["message"].o["items"]
        top_match == items.l[1]
        title == Get(top_match, "title", JNull)
        date_parts == Get(Get(top_match, "published-print", EmptyObj),
                          "date-parts", JList(<<JList(<<JNull>>)>>))
    IN IF RequestFailed(response) \/ ~JTruthy(items)
       THEN [found |-> FALSE]
       ELSE [found |-> TRUE,
             doi |-> PyStr(Get(top_match, "DOI", JNull)),
             title |-> IF ~JTruthy(title) THEN <<>>
                       ELSE IF title.t = "list" THEN title.l[1].s
                       ELSE <<title.s[1]>>,
             year |-> PyInt(date_parts.l[1].l[1]),
             publisher |-> PyStr(Get(top_match, "publisher", JNull))]

BibInit ==
    /\ MergeIdle
    /\ MainIdle
    /\ ref_dict \in RefDicts
    /\ crossref_result = None
    /\ pair = <<>>
    /\ hashed = None

\* crossref_result = check_crossref(parsed): the query that is sent, the
\* answer, and the returned value, None (of Python) after an exception.
CheckCrossref ==
    /\ crossref_result = None
    /\ ref_dict # <<>>
    /\ \E response \in BibResponses :
          crossref_result' =
              Some([query |-> query_str(ref_dict),
                    response |-> response,
                    raised |-> check_crossref_raises(response),
                    value |-> IF check_crossref_raises(response) THEN None
                              ELSE Some(check_crossref(response))])
    /\ UNCHANGED <<mergevars, mainvars, ref_dict, pair, hashed>>

BibSpec == BibInit /\ [][CheckCrossref]_vars

----------------------------------------------------------------------------
\* main from the call of get_scopus_publications on

\* main is at line 1119: every source before Scopus gave no record.
ScopusInit ==
    /\ MergeIdle
    /\ OtherIdle
    /\ orcid = <<"0","0","0","0","-","0","0","0","2","-","1","8","2","5","-","0","0","9","X">>
    /\ sort = None
    /\ reverse = FALSE
    /\ at = "scopus"
    /\ session = TRUE
    /\ contacted = {}
    /\ all_publications = <<>>
    /\ scopus = ScopusStart
    /\ merged_pubs = <<>>
    /\ written = <<>>
    /\ status = None
    /\ calls = <<>>
    /\ returned = <<>>
    /\ fetched = <<>>
    /\ scopus_end = "none"
    /\ unsorted = <<>>

ScopusNext == Scopus \/ CallMerge \/ Sort \/ WriteOutput

\* The body of the loop is run again and again: the pass that is due is
\* taken, as every request is answered.
ScopusSpec == ScopusInit /\ [][ScopusNext]_vars /\ WF_vars(Scopus)

----------------------------------------------------------------------------
\* Publication.__eq__ and Publication.__hash__

\* Largest value of hash() here.
MaxHash == 1

\* self == other, of two Publication records
__eq__(self, other) ==
    IF TruthyStr(self.doi) /\ TruthyStr(other.doi)
    THEN lower(Val(self.doi)) = lower(Val(other.doi))
    ELSE lower(self.title) = lower(other.title) /\ self.year = other.year

\* self == other raises AttributeError: a title that is None is lowered.
eq_raises(self, other) ==
    /\ ~(TruthyStr(self.doi) /\ TruthyStr(other.doi))
    /\ self.title = NoTitle \/ other.title = NoTitle

\* The object __hash__ hands to hash(): the lowered DOI, a str, or the tuple
\* of the lowered title and the year.
hash_arg(self) ==
    IF TruthyStr(self.doi)
    THEN [str |-> lower(Val(self.doi))]
    ELSE [tuple |-> <<lower(self.title), self.year>>]

\* hash(self), with hash the function of this run of the interpreter
__hash__(self, hash) == hash[hash_arg(self)]

\* hash(self) raises AttributeError
hash_raises(self) == ~TruthyStr(self.doi) /\ self.title = NoTitle

HashInit ==
    /\ MergeIdle
    /\ MainIdle
    /\ ref_dict = <<>>
    /\ crossref_result = None
    /\ pair \in Catalogue \X Catalogue
    /\ hashed = None

\* a == b, hash(a) and hash(b) of the pair. hash() is a function of its
\* argument that differs from run to run (the strings are salted): any
\* function on the hashed objects is one of its outcomes.
Compare ==
    /\ hashed = None
    /\ pair # <<>>
    /\ LET a == pair[1]
           b == pair[2]
       IN IF eq_raises(a, b) \/ hash_raises(a) \/ hash_raises(b)
          THEN hashed' = Some([raised |-> TRUE])
          ELSE \E hash \in [{hash_arg(a), hash_arg(b)} -> 0..MaxHash] :
                  hashed' = Some([raised |-> FALSE,
                                  eq |-> __eq__(a, b),
                                  hashes |-> <<__hash__(a, hash),
                                               __hash__(b, hash)>>])
    /\ UNCHANGED <<mergevars, mainvars, ref_dict, crossref_result, pair>>

HashSpec == HashInit /\ [][Compare]_vars

----------------------------------------------------------------------------
\* Vocabulary of the properties

\* The first call has returned.
Returned1 == call = 1 /\ pc = "returned"

\* The call on the result of the first call has returned.
Returned2 == call = 2 /\ pc = "returned"

HasDoi(p) == p.doi # None /\ Val(p.doi) # <<>>

SameDoi(p, q) == HasDoi(p) /\ HasDoi(q) /\ lower(Val(p.doi)) = lower(Val(q.doi))

SameTitleYear(p, q) == lower(p.title) = lower(q.title) /\ p.year = q.year

\* The identity invariant of the data model.
SamePublication(p, q) ==
    \/ SameDoi(p, q)
    \/ (~HasDoi(p) \/ ~HasDoi(q)) /\ SameTitleYear(p, q)

RECURSIVE CommaJoin(_)
\* ", ".join(labels), for a non-empty list
CommaJoin(labels) ==
    IF Len(labels) = 1 THEN labels[1]
    ELSE CommaJoin(SubSeq(labels, 1, Len(labels) - 1))
            \o <<",", " ">> \o labels[Len(labels)]

IntFields == {"year", "citations"}

TextFields == {"doi", "journal", "volume", "issue", "pages", "publisher",
               "url", "abstract", "type"}

\* None, the empty string or the empty list
IsEmpty(p, f) ==
    IF f \in IntFields THEN p[f] = None
    ELSE IF f \in TextFields THEN p[f] = None \/ p[f] = Some(<<>>)
    ELSE p[f] = <<>>

\* The number 0, which Python's truth test takes for a missing value.
IsZero(p, f) == f \in IntFields /\ p[f] = Some(0)

\* The input references in input order.
InputOrder == [n \in DOMAIN input |-> n]

\* The input records that have the identity key k, in input order.
WithKey(k) == SelectSeq(InputOrder, LAMBDA n : key(input[n]) = k)

\* The step of the loop that merges publications_list[idx] into a primary.
IsMerge ==
    /\ pc = "loop"
    /\ idx <= Len(publications_list)
    /\ contains(merged, key(heap[publications_list[idx]]))
    /\ idx' = idx + 1

----------------------------------------------------------------------------
\* C1: two records that both have a DOI, equal ignoring case, end up in
\* exactly one output record, which has the title of the first input record
\* with that DOI and whose source contains the source labels of both.
C1_DoiPrecedence ==
    Returned1 =>
        \A i, j \in Refs :
            (i < j /\ SameDoi(input[i], input[j])) =>
                LET out == heap[into[i]]
                    earliest == CHOOSE n \in Refs :
                        /\ SameDoi(input[n], input[i])
                        /\ \A m \in Refs : SameDoi(input[m], input[i]) => n <= m
                IN /\ into[i] = into[j]
                   /\ Cardinality({n \in 1..Len(result) : result[n] = into[i]}) = 1
                   /\ out.title = input[earliest].title
                   /\ OccursIn(input[i].source, out.source)
                   /\ OccursIn(input[j].source, out.source)

\* C2: a record with a DOI and a record without one end up in the same
\* output record whenever their lowercased titles and their years are equal.
C2_DoiAndDoiLessMerge ==
    Returned1 =>
        \A i, j \in Refs :
            (HasDoi(input[i]) /\ ~HasDoi(input[j])
                /\ SameTitleYear(input[i], input[j])) => into[i] = into[j]

\* C3: two records that both lack a DOI end up in the same output record if
\* and only if their lowercased titles are equal and their years are equal,
\* two absent years being equal.
C3_FallbackIdentity ==
    Returned1 =>
        \A i, j \in Refs :
            (i # j /\ ~HasDoi(input[i]) /\ ~HasDoi(input[j])) =>
                (into[i] = into[j] <=> SameTitleYear(input[i], input[j]))

\* Two year-less records whose titles differ only in case were merged, and a
\* record of the same title with a year stayed apart.
C3_Witness ==
    /\ Returned1
    /\ \E i, j, m \in Refs :
        /\ i < j
        /\ ~HasDoi(input[i]) /\ ~HasDoi(input[j]) /\ ~HasDoi(input[m])
        /\ input[i].year = None /\ input[j].year = None
        /\ input[i].title # input[j].title
        /\ into[i] = into[j]
        /\ lower(input[m].title) = lower(input[i].title)
        /\ input[m].year # None
        /\ into[m] # into[i]

\* C4: two input records that contribute to the same output record denote
\* the same publication under the identity invariant.
C4_OnlySamePublicationMerged ==
    Returned1 =>
        \A i, j \in Refs :
            into[i] = into[j] => SamePublication(input[i], input[j])

\* C5: a merge of B into the primary A leaves in every field of A other
\* than source A's value if it was non-empty and B's value otherwise
\* (nothing is required here of a field that is 0 in A or in B, nor of a
\* merge of two records that are not the same publication).
C5_FillEveryEmptyField ==
    [][IsMerge =>
        LET pub == publications_list[idx]
            existing == getitem(merged, key(heap[pub]))
        IN \A f \in Fields \ {"source"} :
            IF ~SamePublication(heap[existing], heap[pub]) THEN TRUE
            ELSE IF IsZero(heap[existing], f) \/ IsZero(heap[pub], f) THEN TRUE
            ELSE IF ~IsEmpty(heap[existing], f) THEN heap'[existing][f] = heap[existing][f]
            ELSE IF ~IsEmpty(heap[pub], f) THEN heap'[existing][f] = heap[pub][f]
            ELSE IsEmpty(heap'[existing], f)]_vars

\* C6: a field of an output record is empty only if it is empty in every
\* input record that has the identity key of the output record and is the
\* same publication (an input value of 0 is let pass as empty here).
C6_MostComplete ==
    Returned1 =>
        \A n \in 1..Len(result) : \A f \in Fields :
            IsEmpty(heap[result[n]], f) =>
                \A i \in Refs :
                    (/\ key(input[i]) = key(input[result[n]])
                     /\ SamePublication(input[i], input[result[n]])) =>
                        IsEmpty(input[i], f) \/ IsZero(input[i], f)

\* C7: the source of an output record is the source labels of all input
\* records with its identity key, in input order, joined by ", ".
C7_SourceIsJoinedLabels ==
    Returned1 =>
        \A n \in 1..Len(result) :
            LET same == WithKey(key(input[result[n]]))
            IN heap[result[n]].source =
                  CommaJoin([m \in 1..Len(same) |-> input[same[m]].source])

\* A record was merged into a primary that has the same label and that
\* took no field from it: the label is there twice.
C7_Witness ==
    /\ Returned1
    /\ \E n \in 1..Len(result) : \E j \in Refs :
        LET r == result[n]
        IN /\ j # r
           /\ into[j] = r
           /\ input[j].source = input[r].source
           /\ heap[r] = [input[r] EXCEPT
                            !.source = JoinSource(input[r].source, input[j].source)]

\* C8: the output has one record per identity key, in the order in which
\* the keys first occur in the input, and the record of a key is the first
\* input record that has the key.
C8_FirstSeenOrder ==
    Returned1 =>
        /\ result = SelectSeq(InputOrder,
                        LAMBDA n : \A m \in 1..(n - 1) : key(input[m]) # key(input[n]))
        /\ \A m, n \in 1..Len(result) :
              m # n => key(heap[result[m]]) # key(heap[result[n]])
        /\ \A i \in Refs : \E n \in 1..Len(result) :
              key(heap[result[n]]) = key(input[i])

\* Two keys were emitted, and a record was merged into the primary of the
\* first key after the second key had been seen.
C8_Witness ==
    /\ Returned1
    /\ Len(result) = 2
    /\ \E j \in Refs :
        /\ j > result[2]
        /\ into[j] = result[1]
        /\ input[j].title # input[result[1]].title

\* C9: after the call every input record has the field values it had before
\* the call, and the input list is unchanged.
C9_InputUntouched ==
    Returned1 => heap = input /\ publications_list = InputOrder

\* C10: the call on the result of a call merges nothing and returns the
\* same records with the same field values.
C10_Idempotent ==
    Returned2 =>
        /\ \A r \in Refs : into[r] \in {0, r}
        /\ Len(result) = Len(first)
        /\ \A n \in 1..Len(result) : heap[result[n]] = first[n]

\* The second call returned two records, one of them made of two input
\* records by the first call.
C10_Witness ==
    /\ Returned2
    /\ Len(result) = 2
    /\ Cardinality(Refs) = 3
    /\ \E n \in 1..2 : heap[result[n]] # input[result[n]]

----------------------------------------------------------------------------
\* Orders of the input

\* The permutations of the input positions.
Orders == {p \in [Refs -> Refs] : \A i, j \in Refs : p[i] = p[j] => i = j}

\* The input records in the order p.
Permuted(p) == [n \in DOMAIN input |-> input[p[n]]]

\* The record with the identity key k among the records out.
OfKey(out, k) == out[CHOOSE n \in 1..Len(out) : key(out[n]) = k]

\* The records the first call returned.
Output == [n \in 1..Len(result) |-> heap[result[n]]]

KeySet(out) == {key(out[n]) : n \in 1..Len(out)}

\* The fields the else branch of the loop fills.
FilledFields == {"authors", "journal", "abstract", "url", "volume", "issue",
                 "pages", "publisher", "citations", "type"}

\* bool(p.f)
Truthy(p, f) ==
    IF f \in IntFields THEN TruthyInt(p[f])
    ELSE IF f \in TextFields THEN TruthyStr(p[f])
    ELSE p[f] # <<>>

RECURSIVE SplitLabels(_)
\* source.split(", ")
SplitLabels(s) ==
    LET cuts == {n \in 1..(Len(s) - 1) : s[n] = "," /\ s[n + 1] = " "}
    IN IF cuts = {} THEN <<s>>
       ELSE LET n == CHOOSE c \in cuts : \A e \in cuts : c <= e
            IN <<SubSeq(s, 1, n - 1)>> \o SplitLabels(SubSeq(s, n + 2, Len(s)))

\* The sequences a and b hold the same elements, each as often.
SameBag(a, b) ==
    /\ Len(a) = Len(b)
    /\ \A n \in 1..Len(a) :
          Cardinality({m \in 1..Len(a) : a[m] = a[n]})
              = Cardinality({m \in 1..Len(b) : b[m] = a[n]})

\* No input record has the title None.
WellFormed == \A i \in Refs : input[i].title # NoTitle

----------------------------------------------------------------------------
\* C11: merge_publications gives every permutation of the input the same
\* set of identity keys.
C11_SameKeysInEveryOrder ==
    Returned1 =>
        \A p \in Orders :
            KeySet(merge_publications(Permuted(p))) = KeySet(Output)

\* Three records of two keys were merged, and the two records of one key
\* differ in title, so that another order has another primary.
C11_Witness ==
    /\ Returned1
    /\ Cardinality(Refs) = 3
    /\ Len(result) = 2
    /\ \E i, j \in Refs :
          i # j /\ into[i] = into[j] /\ input[i].title # input[j].title

\* C12: the record emitted for an identity key has the same field content
\* under every permutation of the input.
C12_SameContentInEveryOrder ==
    Returned1 =>
        \A p \in Orders :
            LET out == merge_publications(Permuted(p))
            IN \A n \in 1..Len(out) :
                  key(out[n]) \in KeySet(Output)
                      => OfKey(Output, key(out[n])) = out[n]

\* C12 as amended: under every permutation of the input the record emitted
\* for an identity key has a value that counts as present in the same filled
\* fields, and its source holds the same labels, each as often.
C12_SamePresenceInEveryOrder ==
    Returned1 =>
        \A p \in Orders :
            LET out == merge_publications(Permuted(p))
            IN \A n \in 1..Len(out) :
                  /\ key(out[n]) \in KeySet(Output)
                  /\ LET here == OfKey(Output, key(out[n]))
                     IN /\ \A f \in FilledFields :
                              Truthy(here, f) <=> Truthy(out[n], f)
                        /\ SameBag(SplitLabels(here.source),
                                   SplitLabels(out[n].source))

\* Two records of one key were merged of which the first has an empty
\* journal and the second a journal, and their labels differ.
C12_Witness ==
    /\ Returned1
    /\ \E i, j \in Refs :
          /\ i < j
          /\ into[j] = i
          /\ input[i].journal = Some(<<>>)
          /\ TruthyStr(input[j].journal)
          /\ input[i].source # input[j].source
          /\ heap[i].journal = input[j].journal

\* C13: merge_publications does not raise on well-formed records, an empty
\* title, an absent year and an absent or empty DOI included.
C13_TotalOnWellFormed ==
    WellFormed => pc # "raised"

\* The call returned on records among which are an empty title, an absent
\* year, an absent DOI and an empty DOI.
C13_Witness ==
    /\ Returned1
    /\ \E i, j \in Refs :
          /\ input[i].title = <<>> /\ input[i].year = None /\ input[i].doi = None
          /\ input[j].doi = Some(<<>>)

----------------------------------------------------------------------------
\* Vocabulary of the claims about main and the adapters

Adapters ==
    {"get_orcid_works", "get_crossref_publications",
     "get_semantic_scholar_publications", "get_openalex_publications",
     "get_arxiv_publications", "get_dblp_publications",
     "get_scopus_publications"}

RECURSIVE Flatten(_)
\* The concatenation of the lists of a list.
Flatten(lists) ==
    IF lists = <<>> THEN <<>> ELSE Head(lists) \o Flatten(Tail(lists))

\* The positions of name in the history of the calls.
CallsOf(name) == {n \in 1..Len(calls) : calls[n] = name}

\* The functions of the output step, one per format.
Outputs ==
    {"save_to_json", "save_to_csv", "save_to_bibtex", "format_citation"}

\* The run is over: main returned, or an exception left it.
Ended == at \in {"exit", "raised"}

\* The sort step was taken with one of the three keys and returned.
Sorted == at \in {"output", "exit"} /\ Sorts(sort_key_of(sort))

\* The key of the claims: a missing year or citation count is zero, a title
\* is compared without regard to case.
ClaimKey(p) ==
    IF sort_key_of(sort) = <<"y","e","a","r">>
    THEN (IF p.year = None THEN 0 ELSE Val(p.year))
    ELSE IF sort_key_of(sort) = <<"t","i","t","l","e">> THEN lower(p.title)
    ELSE (IF p.citations = None THEN 0 ELSE Val(p.citations))

\* a comes before b in the order of the key.
Before(a, b) ==
    IF sort_key_of(sort) = <<"t","i","t","l","e">> THEN StrLess(a, b) ELSE a < b

----------------------------------------------------------------------------
\* C14: every record that an adapter returned, and so every record handed
\* to merge_publications, has a title that is a non-empty string: never
\* None and never "".
C14_AdaptersSetTitle ==
    \A n \in 1..Len(all_publications) :
        /\ all_publications[n].title # NoTitle
        /\ all_publications[n].title # <<>>

\* C15: no call of an adapter ends in an exception that leaves the adapter
\* and aborts the run: whatever the service answers, the adapter returns.
C15_AdaptersNeverRaise ==
    at = "raised" => calls[Len(calls)] \notin Adapters

\* C16: with an argument that fails the check of the ORCID format, main
\* creates no session, sends no request and calls no adapter, and its only
\* step is the exit with a non-zero status.
C16_InvalidOrcidNoNetwork ==
    ~orcid_match(orcid) =>
        /\ ~session
        /\ contacted = {}
        /\ calls = <<>>
        /\ at \in {"validate", "exit"}
        /\ at = "exit" => status # None /\ Val(status) # 0

C16_Witness == ~orcid_match(orcid) /\ at = "exit" /\ status = Some(1)

\* C17: in a run with a valid identifier the adapters are called one after
\* another, merge_publications is called after the last of them, on the
\* concatenation of the lists they returned, sort and output come after it,
\* and a run that is over has called merge_publications exactly once.
C17_SequentialThenMergeOnce ==
    orcid_match(orcid) =>
        /\ all_publications = Flatten(returned)
        /\ Cardinality(CallsOf("merge_publications")) <= 1
        /\ \A m \in CallsOf("merge_publications") :
               /\ \A n \in 1..Len(calls) : calls[n] \in Adapters => n < m
               /\ calls[m - 1] = "get_scopus_publications"
               /\ \A n \in 1..Len(calls) :
                      calls[n] \in Outputs \cup {"sort"} => m < n
        /\ Ended => Cardinality(CallsOf("merge_publications")) = 1

\* C18: when a request of the Scopus adapter for a page after the first
\* fails, by its status or by an exception, the adapter returns the records
\* of the pages it fetched before, in the order it fetched them.
C18_PartialResultKept ==
    scopus_end = "failed" /\ fetched # <<>> =>
        returned[Len(returned)] = Flatten(fetched)

C18_Witness ==
    /\ scopus_end = "failed"
    /\ Len(fetched) = 2
    /\ fetched[1] # fetched[2]
    /\ Len(returned[Len(returned)]) = 2 * count_per_page

\* C19: after the sort by year, title or citations the records are those
\* of before the sort, in non-decreasing order of the key, non-increasing
\* with reverse; a missing year or citation count counts as zero and titles
\* are compared without regard to case.
C19_SortedByKey ==
    Sorted =>
        /\ Len(merged_pubs) = Len(unsorted)
        /\ {merged_pubs[n] : n \in 1..Len(merged_pubs)}
               = {unsorted[n] : n \in 1..Len(unsorted)}
        /\ \A n \in 1..(Len(merged_pubs) - 1) :
               IF reverse
               THEN ~Before(ClaimKey(merged_pubs[n]),
                            ClaimKey(merged_pubs[n + 1]))
               ELSE ~Before(ClaimKey(merged_pubs[n + 1]),
                            ClaimKey(merged_pubs[n]))

\* A sort by year that moves a record without a year before a record with
\* one.
C19_Witness ==
    /\ Sorted
    /\ sort = None
    /\ ~reverse
    /\ \E n \in 1..Len(unsorted) :
           /\ unsorted[n].year = None
           /\ \E m \in 1..(n - 1) : unsorted[m].year # None
    /\ \E n, m \in 1..Len(unsorted) :
           unsorted[n].year # None /\ unsorted[m].year # None
               /\ unsorted[n].year # unsorted[m].year

\* The position of the record r in the list l.
PositionIn(l, r) == CHOOSE n \in 1..Len(l) : l[n] = r

\* C20: the sort is stable, also with reverse: two records of the same key
\* are after the sort in the order merge_publications returned them in.
C20_SortIsStable ==
    Sorted =>
        \A n, m \in 1..Len(unsorted) :
            n < m /\ ClaimKey(unsorted[n]) = ClaimKey(unsorted[m]) =>
                PositionIn(merged_pubs, unsorted[n])
                    < PositionIn(merged_pubs, unsorted[m])

\* A reversed sort of three records of one key, among records of another.
C20_Witness ==
    /\ Sorted
    /\ reverse
    /\ \E n, m, o \in 1..Len(unsorted) :
           /\ n < m /\ m < o
           /\ ClaimKey(unsorted[n]) = ClaimKey(unsorted[m])
           /\ ClaimKey(unsorted[m]) = ClaimKey(unsorted[o])
    /\ \E n, m \in 1..Len(unsorted) :
           ClaimKey(unsorted[n]) # ClaimKey(unsorted[m])

----------------------------------------------------------------------------
\* Vocabulary of the claims about the output

\* The output step was taken, with this function.
Saved(name) == calls # <<>> /\ calls[Len(calls)] = name /\ Ended

\* The entry type the type field stands for.
TypeOf(type) ==
    LET Has(word) == type # None /\ OccursIn(word, lower(Val(type)))
    IN IF Has(<<"c","o","n","f","e","r","e","n","c","e">>) \/ Has(<<"p","r","o","c","e","e","d","i","n","g","s">>) THEN "inproceedings"
       ELSE IF Has(<<"b","o","o","k">>) THEN "book"
       ELSE IF Has(<<"t","h","e","s","i","s">>) /\ Has(<<"p","h","d">>) THEN "phdthesis"
       ELSE IF Has(<<"t","h","e","s","i","s">>) THEN "mastersthesis"
       ELSE "article"

\* C21: save_to_csv returns on every list of records, and the file then
\* holds the header row and after it one row per record, in the order of
\* the list, whose authors cell is the authors joined with "; ".
C21_CsvRowPerRecord ==
    Saved("save_to_csv") =>
        /\ at = "exit"
        /\ Len(written) = 1 + Len(merged_pubs)
        /\ written[1] = fieldnames
        /\ \A n \in 1..Len(merged_pubs) :
               written[n + 1][2] = join(<<";"," ">>, merged_pubs[n].authors)

\* C22: save_to_bibtex writes one entry per record, in the order of the
\* list, and the type of the entry is the one the type field of the record
\* stands for: inproceedings for conference or proceedings, else book, else
\* phdthesis or mastersthesis for a thesis, else article.
C22_BibtexEntryPerRecord ==
    Saved("save_to_bibtex") =>
        /\ at = "exit"
        /\ Len(written) = Len(merged_pubs)
        /\ \A n \in 1..Len(merged_pubs) :
               written[n].entry_type = TypeOf(merged_pubs[n].type)

----------------------------------------------------------------------------
\* C23: check_crossref never raises; it returns a dictionary that describes
\* the top match when Crossref answers with a match, and None when Crossref
\* answers without a match or the request fails.
C23_MatchOrNone ==
    crossref_result # None =>
        LET call_ == Val(crossref_result)
            items == call_.response.body.o["message"].o["items"]
            matched == /\ call_.response.status = 200
                       /\ In("message", call_.response.body)
                       /\ items.t = "list" /\ items.l # <<>>
        IN /\ ~call_.raised
           /\ IF matched
              THEN call_.value # None /\ Val(call_.value).found
              ELSE call_.value = None

----------------------------------------------------------------------------
\* C24: a citation count of 0 is a value: a primary that came with the
\* count 0 has the count 0 after every merge into it, also after the merge
\* of a record of its key with a positive count.
C24_ZeroCitationsKept ==
    call = 1 =>
        \A r \in Refs :
            into[r] = r /\ input[r].citations = Some(0) =>
                heap[r].citations = Some(0)

----------------------------------------------------------------------------
\* C25: two Publication records that are equal have the same hash, also
\* when only one of them has a DOI and they are equal by title and year.
C25_EqualHashEqual ==
    hashed # None /\ ~Val(hashed).raised /\ Val(hashed).eq =>
        Val(hashed).hashes[1] = Val(hashed).hashes[2]

----------------------------------------------------------------------------
\* C26: no merge changes the title, the year or the DOI of a record, and a
\* primary is stored under the key it has; so the returned list has, for
\* the key of every input record, exactly one record of that key, its
\* records have pairwise distinct keys, and it is as long as the input has
\* distinct keys.
C26_NoLossNoDuplicate ==
    /\ \A r \in Refs :
           /\ heap[r].title = input[r].title
           /\ heap[r].year = input[r].year
           /\ heap[r].doi = input[r].doi
    /\ \A n \in 1..Len(merged) : merged[n].k = key(heap[merged[n].v])
    /\ Returned1 =>
           /\ \A i \in Refs :
                  Cardinality({n \in 1..Len(result) :
                                  key(heap[result[n]]) = key(input[i])}) = 1
           /\ \A m, n \in 1..Len(result) :
                  key(heap[result[m]]) = key(heap[result[n]]) => m = n
           /\ Len(result) = Cardinality({key(input[i]) : i \in Refs})

\* Three records of two keys were merged into two, and a record went into
\* a primary of another title, year and spelling of the DOI.
C26_Witness ==
    /\ Returned1
    /\ Len(input) = 3
    /\ Len(result) = 2
    /\ \E j \in Refs :
          /\ into[j] # j
          /\ input[j].title # input[into[j]].title
          /\ input[j].year # input[into[j]].year
          /\ input[j].doi # input[into[j]].doi

----------------------------------------------------------------------------
\* C27: the loop of get_scopus_publications ends. A pass after which the
\* loop goes on has added at least 25 records and advanced start_index by
\* 25, the total is the one of the first answer and is not yet reached (a
\* total that counts as 0 ends the loop with the first page); and the call
\* comes to its end.
C27_ScopusLoopEnds ==
    /\ [][at = "scopus" /\ at' = "scopus" =>
             /\ scopus'.start_index = scopus.start_index + 25
             /\ Len(scopus'.publications) >= Len(scopus.publications) + 25
             /\ scopus'.total_results # None
             /\ scopus.total_results # None =>
                    scopus'.total_results = scopus.total_results
             /\ Len(scopus'.publications) < Val(scopus'.total_results)]_vars
    /\ (at = "scopus") ~> (at # "scopus")

\* The loop went on twice and ended with the third page, on the total.
C27_Witness ==
    /\ scopus_end = "done"
    /\ Len(fetched) = 3
    /\ Len(returned[Len(returned)]) = 3 * count_per_page

====
